---- MODULE Spec2Model ----
(***************************************************************************)
(* A model of the phone-number-manager API client layer:                   *)
(*   PhoneNumberAPI.fetch_all_available_numbers  (pagination, fallback)    *)
(*   EndpointAPI.create_endpoint and its wrappers (one POST)               *)
(* URLs are sequences of path segments (the text between two "/"); JSON    *)
(* values are tagged records.                                              *)
(***************************************************************************)
EXTENDS Integers, Sequences, FiniteSets, TLC

\* ------------------------------------------------------------------ bounds
\* largest number of items a backend resource holds
MaxItems == 2
\* largest page limit a call is made with
MaxLimit == 2
\* largest number of phone numbers in one creation request
MaxBatch == 2
\* the longest list of connection entries a response holds
MaxConns == 4
\* the most lookups of one cached entry
MaxLookups == 2
\* how many times the data behind the API changes
MaxVersion == 1
\* the longest organization list
MaxOrgs == 2
\* the most user actions of one dashboard session
MaxActions == 5

\* ------------------------------------------------------------------- state
VARIABLES
    total_items,        \* items the phone-numbers resource holds
    endpoint_items,     \* items the endpoints resource holds
    limit,              \* the limit argument
    phone_numbers_url,  \* the URL the loop requests
    available,          \* the accumulated set
    offset,             \* the loop's offset
    pc,                 \* "idle", "loop" (at the head of while True) or "done"
    outcome,            \* "none", "returned" or "raised"
    stderr,             \* lines printed to the diagnostic stream
    log,                \* the GET requests sent so far, with their answers
    c_pc,               \* "idle" or "done"
    c_args,             \* the arguments of the call
    posts,              \* the POST requests sent
    c_response,         \* what the server answered
    c_result,           \* how the call ended
    c_text,             \* str(e) of the exception the call raised, "" if none
    shown,              \* what the caller of the creator surfaced
    x_pc,               \* "input" or "done"
    x_item,             \* the item
    x_primary,          \* what the primary path adds for it
    x_fallback,         \* what the fallback path adds for it
    n_pc,               \* "idle", "returned", "raised" or "cached"
    n_raw,              \* the connection entries of the response
    n_returned,         \* what get_connections_from_workspace returned
    n_cached,           \* the connections in the cached org data
    n_lookups,          \* lookups of the cached org data so far
    a_pc,               \* "idle", "input" or "done"
    a_set,              \* the numbers_set argument
    a_candidate,        \* the phone_number argument
    a_result,           \* what is_number_available returned
    k_pc,               \* "off" or "on"
    session_state,      \* the cached entries, by key
    server,             \* the version of the data the server holds
    k_last,             \* the last cache operation: what it found, asked and returned
    o_pc,               \* "idle", "input" or "done"
    o_orgs,             \* the organization list _get_orgs_data returned
    o_name,             \* the org_name argument
    o_result,           \* what get_org_id_by_name returned: <<>> for None, else <<id>>
    p_pc,               \* "idle", "loop" or "done"
    p_total,            \* items the connection's phone-numbers resource holds
    p_limit,            \* the limit argument
    p_offset,           \* the loop's offset
    p_all,              \* all_phone_numbers
    p_outcome,          \* "none", "returned" or "raised"
    p_returned,         \* <<the list>> when the call returned, else <<>>
    p_log,              \* the GET requests sent so far, with their answers
    z_pc,               \* position of the normalization of one decoded body
    z_body,             \* the decoded body
    z_limit,            \* the page size
    z_norm,             \* <<>> until the (items, has_more) pair is derived, then <<pair>>
    s_pc,               \* position of the reading of one body by both paths
    s_body,             \* the decoded body
    s_limit,            \* the page size
    s_primary,          \* <<>> until read, then <<what the primary path makes of the body>>
    s_fallback,         \* <<>> until read, then <<what the fallback path makes of the body>>
    ss_selected_org,    \* session_state.selected_org ("" is None)
    ss_selected_provider_idx,\* session_state.selected_provider_idx, counted from 1 (0 is None)
    ss_numbers_loaded,  \* session_state.numbers_loaded
    ss_phone_numbers,   \* session_state.phone_numbers
    ss_last_refresh,    \* session_state.last_refresh: the time of the load (0 is None)
    ss_current_api_url, \* session_state.current_api_url (<<>> is None)
    ss_current_token,   \* session_state.current_token ("" is None)
    csv_file,           \* whether the file config.CSV_FILE exists
    d_clock,            \* the user actions processed so far
    d_last              \* the last user action, the session before it and what it fetched or posted

fetchVars == <<total_items, endpoint_items, limit, phone_numbers_url, available,
               offset, pc, outcome, stderr, log>>
createVars == <<c_pc, c_args, posts, c_response, c_result, c_text, shown>>
extractVars == <<x_pc, x_item, x_primary, x_fallback>>
connVars == <<n_pc, n_raw, n_returned, n_cached, n_lookups>>
availVars == <<a_pc, a_set, a_candidate, a_result>>
cacheVars == <<k_pc, session_state, server, k_last>>
orgVars == <<o_pc, o_orgs, o_name, o_result>>
phonesVars == <<p_pc, p_total, p_limit, p_offset, p_all, p_outcome, p_returned, p_log>>
normVars == <<z_pc, z_body, z_limit, z_norm>>
shapeVars == <<s_pc, s_body, s_limit, s_primary, s_fallback>>
dashVars == <<ss_selected_org, ss_selected_provider_idx, ss_numbers_loaded, ss_phone_numbers, ss_last_refresh, ss_current_api_url, ss_current_token, csv_file, d_clock, d_last>>
vars == <<fetchVars, createVars, extractVars, connVars, availVars, cacheVars, orgVars, phonesVars, normVars, shapeVars, dashVars>>

\* what the actions of one operation leave alone
exceptFetch == <<createVars, extractVars, connVars, availVars, cacheVars, orgVars, phonesVars, normVars, shapeVars, dashVars>>
exceptCreate == <<fetchVars, extractVars, connVars, availVars, cacheVars, orgVars, phonesVars, normVars, shapeVars, dashVars>>
exceptExtract == <<fetchVars, createVars, connVars, availVars, cacheVars, orgVars, phonesVars, normVars, shapeVars, dashVars>>
exceptConn == <<extractVars, fetchVars, createVars, availVars, cacheVars, orgVars, phonesVars, normVars, shapeVars, dashVars>>
exceptAvail == <<fetchVars, createVars, extractVars, connVars, cacheVars, orgVars, phonesVars, normVars, shapeVars, dashVars>>
exceptCache == <<fetchVars, createVars, extractVars, connVars, availVars, orgVars, phonesVars, normVars, shapeVars, dashVars>>
exceptOrg == <<fetchVars, createVars, extractVars, connVars, availVars, cacheVars, phonesVars, normVars, shapeVars, dashVars>>
exceptPhones == <<fetchVars, createVars, extractVars, connVars, availVars, cacheVars, orgVars, normVars, shapeVars, dashVars>>
exceptNorm == <<fetchVars, createVars, extractVars, connVars, availVars, cacheVars, orgVars, phonesVars, shapeVars, dashVars>>
exceptShape == <<fetchVars, createVars, extractVars, connVars, availVars, cacheVars, orgVars, phonesVars, normVars, dashVars>>
exceptDash == <<fetchVars, createVars, extractVars, connVars, availVars, cacheVars, orgVars, phonesVars, normVars, shapeVars>>

Min(a, b) == IF a < b THEN a ELSE b

\* ------------------------------------------------------------ JSON values
\* A decoded JSON value: a string, an integer, null, or an object whose
\* fields hold scalars.
NoFields == [k \in {} |-> [t |-> "null", s |-> "", n |-> 0]]
JStr(x) == [t |-> "str", s |-> x, n |-> 0, o |-> NoFields]
JInt(x) == [t |-> "int", s |-> "", n |-> x, o |-> NoFields]
JNull == [t |-> "null", s |-> "", n |-> 0, o |-> NoFields]
JObj(f) == [t |-> "obj", s |-> "", n |-> 0, o |-> f]
\* a scalar as it is stored in an object's field
FStr(x) == [t |-> "str", s |-> x, n |-> 0]
FInt(x) == [t |-> "int", s |-> "", n |-> x]
FNull == [t |-> "null", s |-> "", n |-> 0]

\* Python truthiness of a scalar: None, "" and 0 are falsy.
Truthy(v) == \/ (v.t = "str" /\ v.s # "")
             \/ (v.t = "int" /\ v.n # 0)

\* Python str() of an integer (one decimal digit is enough here).
IntStr(n) == <<"0", "1", "2", "3", "4", "5", "6", "7", "8", "9">>[n + 1]

\* Python str() of a scalar that passed the truthiness test.
PyStr(v) == IF v.t = "str" THEN v.s ELSE IntStr(v.n)

\* dict.get(k): the field's value, None when the key is missing.
Get(o, k) == IF k \in DOMAIN o THEN o[k] ELSE FNull

\* ------------------------------------------------------ field extraction
\* the fields probed for a phone number, in the order of the `or` chain
PhoneFieldsIdFirst == <<"id", "phone_number", "number", "phone", "endpoint">>
PhoneFields == <<"phone_number", "number", "phone", "endpoint", "id">>

\* a or b or ...: the first truthy operand, else the last operand
RECURSIVE OrChain(_, _)
OrChain(o, fs) ==
    IF Len(fs) = 1 THEN Get(o, fs[1])
    ELSE IF Truthy(Get(o, Head(fs))) THEN Get(o, Head(fs))
    ELSE OrChain(o, Tail(fs))

\* The values one item of a primary page adds to `available`.
ExtractPrimary(item) ==
    IF item.t = "obj"
    THEN LET phone_num == OrChain(item.o, PhoneFields)
         IN  IF Truthy(phone_num) THEN {PyStr(phone_num)} ELSE {}
    ELSE IF item.t = "str" THEN {item.s}
    ELSE IF item.t = "int" THEN {IntStr(item.n)}
    ELSE {"None"}

\* The values one item of a fallback (endpoints) page adds to `available`.
ExtractFallback(endpoint) ==
    IF endpoint.t = "obj"
    THEN LET phone_num == OrChain(endpoint.o, PhoneFields)
         IN  IF Truthy(phone_num) THEN {PyStr(phone_num)} ELSE {}
    ELSE IF endpoint.t = "str" THEN {endpoint.s}
    ELSE {}

ExtractAllPrimary(items) == UNION {ExtractPrimary(items[i]) : i \in DOMAIN items}
ExtractAllFallback(items) == UNION {ExtractFallback(items[i]) : i \in DOMAIN items}

\* ------------------------------------------------------- response bodies
\* A decoded body: a mapping (each of items/data/results present or not,
\* has_more absent/true/false), a list, or anything else.
\* An optional key is <<>> when missing and <<value>> when present.
DictBody(items, data, results, hm) ==
    [type |-> "dict", items |-> items, data |-> data, results |-> results,
     has_more |-> hm, list |-> <<>>]
ListBody(l) ==
    [type |-> "list", items |-> <<>>, data |-> <<>>, results |-> <<>>,
     has_more |-> "absent", list |-> l]
OtherBody ==
    [type |-> "other", items |-> <<>>, data |-> <<>>, results |-> <<>>,
     has_more |-> "absent", list |-> <<>>]

\* data.get("has_more", default)
GetHasMore(body, default) ==
    IF body.has_more = "absent" THEN default ELSE body.has_more = "true"

\* The (items, has_more) pair of the primary path.
PrimaryNormalize(body, lim) ==
    IF body.type = "dict"
    THEN LET items0 == IF body.items # <<>> THEN body.items[1] ELSE <<>>
             has_more == GetHasMore(body, Len(items0) = lim)
             items1 == IF items0 = <<>> /\ body.data # <<>>
                       THEN body.data[1] ELSE items0
             items2 == IF items1 = <<>> /\ body.results # <<>>
                       THEN body.results[1] ELSE items1
         IN  [items |-> items2, has_more |-> has_more]
    ELSE IF body.type = "list"
    THEN [items |-> body.list, has_more |-> Len(body.list) = lim]
    ELSE [items |-> <<>>, has_more |-> FALSE]

\* The (items, has_more) pair of the fallback path.
FallbackNormalize(body, lim) ==
    IF body.type = "dict"
    THEN LET endpoints_items ==
                 IF body.items # <<>> THEN body.items[1]
                 ELSE IF body.data # <<>> THEN body.data[1]
                 ELSE <<>>
         IN  [items |-> endpoints_items,
              has_more |-> GetHasMore(body, Len(endpoints_items) = lim)]
    ELSE IF body.type = "list"
    THEN [items |-> body.list, has_more |-> Len(body.list) = lim]
    ELSE [items |-> <<>>, has_more |-> FALSE]

\* "if not items or len(items) < limit or not has_more: break"
PrimaryStopsOnEmptyOnly(norm, lim) == norm.items = <<>>
PrimaryStops(norm, lim) ==
    norm.items = <<>> \/ Len(norm.items) < lim \/ ~norm.has_more

\* "if endpoints_items and has_more and len(endpoints_items) == limit: continue"
FallbackContinuesNever(norm, lim) == FALSE
FallbackContinues(norm, lim) ==
    norm.items # <<>> /\ norm.has_more /\ Len(norm.items) = lim

\* "offset += limit"
NextOffsetStuck(off, lim) == off
NextOffset(off, lim) == off + lim

\* ------------------------------------------------------------------ URLs
\* build_api_url's final f-string, for a base URL and the four identifiers.
BuildApiUrl(base, org_id, workspace_id, provider, connection_id) ==
    base \o <<"api", "app-authoring", "orgs", org_id, "workspaces", workspace_id,
              "channels", "v2v", "providers", provider,
              "connections", connection_id, "phone-numbers">>

\* "/phone-numbers" in api_url
HasPhoneNumbers(u) == \E i \in 2..Len(u) : u[i] = "phone-numbers"

\* The first place where "/channels/v2v/providers/" occurs, 0 when nowhere.
ProvidersAt(u) ==
    LET hits == {i \in 2..(Len(u) - 3) :
                    u[i] = "channels" /\ u[i + 1] = "v2v" /\ u[i + 2] = "providers"}
    IN  IF hits = {} THEN 0 ELSE CHOOSE i \in hits : \A j \in hits : i <= j

\* str.split("/connections/") scans left to right, the matches not sharing a
\* slash: the place of the last match, 0 when there is none.
RECURSIVE LastConnections(_, _, _)
LastConnections(u, i, last) ==
    IF i > Len(u) - 1 THEN last
    ELSE IF u[i] = "connections" THEN LastConnections(u, i + 2, i)
    ELSE LastConnections(u, i + 1, last)

\* phone_numbers_url.split("/connections/")[-1].split("/")[0]
ConnPart(u) == u[LastConnections(u, 2, 0) + 1]

\* Whether a 404 of this URL leads to a fallback request.
FallbackApplies(u) ==
    /\ ProvidersAt(u) # 0
    /\ LastConnections(u, 2, 0) # 0
    /\ ConnPart(u) # ""

\* endpoints_url = f"{base_path}/connections/{conn_part}/endpoints"
EndpointsUrl(u) ==
    SubSeq(u, 1, ProvidersAt(u) - 1) \o <<"connections", ConnPart(u), "endpoints">>

\* ------------------------------------------------------- the environment
\* What the two backend resources hold (the phone-numbers resource and the
\* endpoints resource of a connection), longest case.
PhoneCatalogue ==
    <<JStr("+911"),
      JObj([number |-> FStr("+912"), id |-> FStr("x")]),
      JInt(7),
      JObj([id |-> FStr("")]),
      JStr("+915")>>
EndpointCatalogue ==
    <<JObj([endpoint |-> FStr("+921")]),
      JStr("+922"),
      JInt(8),
      JObj([phone |-> FStr("+923"), id |-> FStr("e3")]),
      JNull>>

\* The page a backend holding the first n items of a catalogue serves.
Page(catalogue, n, off, lim) ==
    SubSeq(catalogue, off + 1, Min(off + lim, n))

\* The body a server wraps a page in.
PageKeys == {"items", "data", "results", "list", "other"}
HasMoreValues == {"absent", "true", "false"}
MkBody(key, page, hm) ==
    CASE key = "items" -> DictBody(<<page>>, <<>>, <<>>, hm)
      [] key = "data" -> DictBody(<<>>, <<page>>, <<>>, hm)
      [] key = "results" -> DictBody(<<>>, <<>>, <<page>>, hm)
      [] key = "list" -> ListBody(page)
      [] OTHER -> OtherBody
\* has_more only exists in a mapping
Shapes == {<<k, h>> \in PageKeys \X HasMoreValues :
              k \in {"list", "other"} => h = "absent"}

ErrorStatuses == {403, 500}
Non200Statuses == {401, 404, 500}
TransportFailures == {"timeout", "connection"}

BaseUrl == <<"https://host">>
ConfigBaseUrl == <<"https://host", "base">>
Providers == {"exotel", "connections"}
ConnectionIds == {"c1", "connections"}
\* the api_url argument: None, a base URL, or what build_api_url returns
ApiUrls ==
    {<<>>, <<"https://host", "other-base">>}
    \cup {BuildApiUrl(BaseUrl, "o1", "w1", p, c) : p \in Providers, c \in ConnectionIds}

\* ------------------------------------- fetch_all_available_numbers: state

\* Lines 35-44: the URL the loop requests for an api_url argument.
PhoneNumbersUrl(api_url) ==
    IF api_url # <<>>
    THEN IF HasPhoneNumbers(api_url) THEN api_url
         ELSE api_url \o <<"phone-numbers">>
    ELSE ConfigBaseUrl \o <<"phone-numbers">>

\* One GET as the log keeps it.
Request(target, url, status, failure, key, hm, size, got) ==
    [target |-> target, url |-> url, offset |-> offset, limit |-> limit,
     status |-> status, failure |-> failure, key |-> key, hm |-> hm,
     size |-> size, got |-> got]

PrimaryRequest(status, failure, key, hm, size, got) ==
    Request("primary", phone_numbers_url, status, failure, key, hm, size, got)

FallbackRequest(status, failure, key, hm, size, got) ==
    Request("endpoints", EndpointsUrl(phone_numbers_url), status, failure, key, hm,
            size, got)

\* "except requests.exceptions.RequestException": HTTPError (raise_for_status),
\* Timeout and ConnectionError are all RequestExceptions.
CaughtOnlyTransport(exc) == exc \in {"Timeout", "ConnectionError"}
Caught(exc) == exc \in {"HTTPError", "Timeout", "ConnectionError"}

ExceptionOf(failure) == IF failure = "timeout" THEN "Timeout" ELSE "ConnectionError"

\* Lines 215-218: the end of the call after an exception left the loop.
EndByExceptionReraising(exc) ==
    /\ pc' = "done"
    /\ outcome' = "raised"
    /\ stderr' = Append(stderr, "Request failed")
EndByException(exc) ==
    /\ pc' = "done"
    /\ outcome' = IF Caught(exc) THEN "returned" ELSE "raised"
    /\ stderr' = IF Caught(exc) THEN Append(stderr, "Request failed") ELSE stderr

\* The end of the call after a break.
EndByBreak ==
    /\ pc' = "done"
    /\ outcome' = "returned"
    /\ stderr' = stderr

\* Lines 157-158: "except Exception: break" around the endpoints request.
EndFallbackFailureRaising(exc) ==
    /\ pc' = "done"
    /\ outcome' = "raised"
    /\ stderr' = stderr
EndFallbackFailure(exc) == EndByBreak

FetchInit ==
    /\ total_items \in 0..MaxItems
    /\ endpoint_items \in 0..MaxItems
    /\ limit = 0
    /\ phone_numbers_url = <<>>
    /\ available = {}
    /\ offset = 0
    /\ pc = "idle"
    /\ outcome = "none"
    /\ stderr = <<>>
    /\ log = <<>>

\* Lines 30-53: the call, up to the head of the loop.
Call(api_url, l) ==
    /\ pc = "idle"
    /\ limit' = l
    /\ phone_numbers_url' = PhoneNumbersUrl(api_url)
    /\ available' = {}
    /\ offset' = 0
    /\ pc' = "loop"
    /\ UNCHANGED <<total_items, endpoint_items, outcome, stderr, log,
                   exceptFetch>>

\* Lines 64-69: the page answers 401.
Primary401 ==
    /\ pc = "loop"
    /\ log' = Append(log, PrimaryRequest(401, "none", "none", "absent", 0, {}))
    /\ EndByBreak
    /\ UNCHANGED <<total_items, endpoint_items, limit, phone_numbers_url, available,
                   offset, exceptFetch>>

\* Lines 64-66, 161, 215-218: the page answers another error status.
PrimaryHttpError(status) ==
    /\ pc = "loop"
    /\ log' = Append(log, PrimaryRequest(status, "none", "none", "absent", 0, {}))
    /\ EndByException("HTTPError")
    /\ UNCHANGED <<total_items, endpoint_items, limit, phone_numbers_url, available,
                   offset, exceptFetch>>

\* Lines 64-66, 215-218: the request times out or cannot connect.
PrimaryTransportFailure(failure) ==
    /\ pc = "loop"
    /\ log' = Append(log, PrimaryRequest(0, failure, "none", "absent", 0, {}))
    /\ EndByException(ExceptionOf(failure))
    /\ UNCHANGED <<total_items, endpoint_items, limit, phone_numbers_url, available,
                   offset, exceptFetch>>

\* Lines 161-213: the page answers 200 with a body.
PrimaryOk(key, hm) ==
    /\ pc = "loop"
    /\ LET page == Page(PhoneCatalogue, total_items, offset, limit)
           norm == PrimaryNormalize(MkBody(key, page, hm), limit)
           got == ExtractAllPrimary(norm.items)
       IN  /\ log' = Append(log, PrimaryRequest(200, "none", key, hm, Len(page), got))
           /\ available' = available \cup got
           /\ IF PrimaryStops(norm, limit)
              THEN EndByBreak /\ offset' = offset
              ELSE /\ offset' = NextOffset(offset, limit)
                   /\ UNCHANGED <<pc, outcome, stderr>>
    /\ UNCHANGED <<total_items, endpoint_items, limit, phone_numbers_url,
                   exceptFetch>>

\* Lines 71-93, 159: 404, and the URL gives no endpoints URL.
Primary404NoFallback ==
    /\ pc = "loop"
    /\ ~FallbackApplies(phone_numbers_url)
    /\ log' = Append(log, PrimaryRequest(404, "none", "none", "absent", 0, {}))
    /\ EndByBreak
    /\ UNCHANGED <<total_items, endpoint_items, limit, phone_numbers_url, available,
                   offset, exceptFetch>>

\* Lines 71-105, 155-156: 404, and the endpoints URL does not answer 200.
Primary404FallbackNon200(status) ==
    /\ pc = "loop"
    /\ FallbackApplies(phone_numbers_url)
    /\ log' = log \o <<PrimaryRequest(404, "none", "none", "absent", 0, {}),
                       FallbackRequest(status, "none", "none", "absent", 0, {})>>
    /\ EndByBreak
    /\ UNCHANGED <<total_items, endpoint_items, limit, phone_numbers_url, available,
                   offset, exceptFetch>>

\* Lines 71-103, 157-158: 404, and the endpoints request fails in transport.
Primary404FallbackTransportFailure(failure) ==
    /\ pc = "loop"
    /\ FallbackApplies(phone_numbers_url)
    /\ log' = log \o <<PrimaryRequest(404, "none", "none", "absent", 0, {}),
                       FallbackRequest(0, failure, "none", "absent", 0, {})>>
    /\ EndFallbackFailure(ExceptionOf(failure))
    /\ UNCHANGED <<total_items, endpoint_items, limit, phone_numbers_url, available,
                   offset, exceptFetch>>

\* Lines 71-154: 404, and the endpoints URL answers 200 with a body.
Primary404FallbackOk(key, hm) ==
    /\ pc = "loop"
    /\ FallbackApplies(phone_numbers_url)
    /\ LET page == Page(EndpointCatalogue, endpoint_items, offset, limit)
           norm == FallbackNormalize(MkBody(key, page, hm), limit)
           got == ExtractAllFallback(norm.items)
       IN  /\ log' = log \o <<PrimaryRequest(404, "none", "none", "absent", 0, {}),
                              FallbackRequest(200, "none", key, hm, Len(page), got)>>
           /\ available' = available \cup got
           /\ IF FallbackContinues(norm, limit)
              THEN /\ offset' = NextOffset(offset, limit)
                   /\ UNCHANGED <<pc, outcome, stderr>>
              ELSE EndByBreak /\ offset' = offset
    /\ UNCHANGED <<total_items, endpoint_items, limit, phone_numbers_url,
                   exceptFetch>>

\* --------------------------------------------- EndpointAPI.create_endpoint

\* config.SARVAM_TOKEN
ConfigToken == "config-token"

\* config.endpoints_url
ConfigEndpointsUrl == ConfigBaseUrl \o <<"endpoints">>

\* config.get_headers()
ConfigHeaders ==
    [Authorization |-> <<"Bearer", ConfigToken>>, Accept |-> "application/json",
     ContentType |-> "application/json"]

\* {"Authorization": f"Bearer {token}"}
TokenHeaders(token) ==
    [Authorization |-> <<"Bearer", token>>, Accept |-> "", ContentType |-> ""]

\* The phone_numbers argument: a string or a list of strings.
Numbers == {"+911111111111", "+912222222222"}
NumberLists == UNION {[1..n -> Numbers] : n \in 0..MaxBatch}
PhoneNumberArgs ==
    {[isStr |-> TRUE, str |-> x, list |-> <<>>] : x \in Numbers}
    \cup {[isStr |-> FALSE, str |-> "", list |-> l] : l \in NumberLists}

\* Lines 248-251: a string becomes a one-element list.
PhoneList(phone_numbers) ==
    IF phone_numbers.isStr THEN <<phone_numbers.str>> ELSE phone_numbers.list

\* Lines 254-259: "if base_url and token" (None and "" are both falsy).
UsesArguments(base_url, token) == base_url # <<>> /\ token # ""

EndpointsPostUrl(base_url, token) ==
    IF UsesArguments(base_url, token) THEN base_url \o <<"endpoints">>
    ELSE ConfigEndpointsUrl

PostHeaders(base_url, token) ==
    IF UsesArguments(base_url, token) THEN TokenHeaders(token) ELSE ConfigHeaders

\* Lines 262, 270-275: the one POST of a call.
Post(phone_numbers, base_url, token) ==
    [url |-> EndpointsPostUrl(base_url, token),
     json |-> [endpoints |-> PhoneList(phone_numbers)],
     headers |-> PostHeaders(base_url, token)]

\* What the server may answer.
PostStatuses == {200, 201, 409, 500}
PostBodies ==
    {[text |-> "{\"id\": 1}", json |-> TRUE],
     [text |-> "{\"detail\": \"already exists\"}", json |-> TRUE],
     [text |-> "{\"detail\": \"Endpoint Already Exists\"}", json |-> TRUE],
     [text |-> "", json |-> FALSE],
     [text |-> "Bad Gateway", json |-> FALSE],
     [text |-> "ALREADY EXISTS", json |-> FALSE]}

\* Python's text of the value response.json() decodes a JSON body to, as an
\* f-string prints it (a dict prints with single quotes).
PyRepr ==
    [t \in {b.text : b \in {x \in PostBodies : x.json}} |->
        CASE t = "{\"id\": 1}" -> "{'id': 1}"
          [] t = "{\"detail\": \"already exists\"}" -> "{'detail': 'already exists'}"
          [] t = "{\"detail\": \"Endpoint Already Exists\"}"
                -> "{'detail': 'Endpoint Already Exists'}"]

\* response.json() of a body that is JSON
JsonOf(body) == <<"decoded", body.text>>

\* raise_for_status(): 4xx and 5xx raise HTTPError
IsHttpError(status) == status >= 400 /\ status < 600

\* Lines 285-291: the message of the ValueError: str(e), which names the
\* status, then the decoded details or, failing that, the response text.
ErrorMessage(status, body) ==
    [status |-> status,
     details |-> IF body.json THEN <<"API Error Details", JsonOf(body)>>
                 ELSE <<"Response Text", body.text>>]

NoMessage == [status |-> 0, details |-> <<>>]

\* A URL as text: its segments joined by "/".
RECURSIVE UrlText(_)
UrlText(u) ==
    IF u = <<>> THEN ""
    ELSE IF Len(u) = 1 THEN u[1]
    ELSE u[1] \o "/" \o UrlText(Tail(u))

\* str(e) of the HTTPError of raise_for_status.
HttpErrorStr(status, url) ==
    (CASE status = 409 -> "409 Client Error: Conflict"
       [] status = 500 -> "500 Server Error: Internal Server Error"
       [] OTHER -> "Error")
    \o " for url: " \o UrlText(url)

\* Lines 285-291: error_msg, the text of the ValueError.
ErrorText(status, url, body) ==
    HttpErrorStr(status, url)
    \o (IF body.json THEN "\nAPI Error Details: " \o PyRepr[body.text]
        ELSE "\nResponse Text: " \o body.text)

\* str(e) of the other exceptions that leave the call.
ExceptionText(kind) ==
    CASE kind = "Timeout" -> "Read timed out."
      [] kind = "ConnectionError" -> "Connection refused"
      [] kind = "JSONDecodeError" -> "Expecting value: line 1 column 1 (char 0)"
      [] OTHER -> ""

Entries == {"create_endpoint", "create_single_endpoint", "create_bulk_endpoints"}
BaseUrlArgs ==
    {<<>>, <<"https://host", "other-base">>,
     BuildApiUrl(BaseUrl, "o1", "w1", "exotel", "c1")}
TokenArgs == {"", "org-token"}

\* The answer to the POST: a status and a body, or a transport failure.
NoResponse == [status |-> 0, body |-> [text |-> "", json |-> FALSE], failure |-> "none"]
Answer(status, body) == [status |-> status, body |-> body, failure |-> "none"]
Failure(failure) == [status |-> 0, body |-> [text |-> "", json |-> FALSE], failure |-> failure]

CreateIdle ==
    /\ c_pc = "idle"
    /\ c_args = [entry |-> "", phone_numbers |-> <<>>, base_url |-> <<>>, token |-> ""]
    /\ posts = <<>>
    /\ c_response = NoResponse
    /\ c_result = [kind |-> "none", value |-> <<>>, message |-> NoMessage]
    /\ c_text = ""
    /\ shown = "none"

\* The part every outcome shares: lines 247-275 (and the wrappers, 319-321
\* and 342-344, which pass their arguments on).
Posting(entry, phone_numbers, base_url, token) ==
    /\ c_pc = "idle"
    /\ c_pc' = "done"
    /\ c_args' = [entry |-> entry, phone_numbers |-> PhoneList(phone_numbers),
                  base_url |-> base_url, token |-> token]
    /\ posts' = Append(posts, Post(phone_numbers, base_url, token))
    /\ UNCHANGED <<shown, exceptCreate>>

\* Lines 281-282: no error status, and the body decodes.
CreateReturns(entry, phone_numbers, base_url, token, status, body) ==
    /\ ~IsHttpError(status)
    /\ body.json
    /\ Posting(entry, phone_numbers, base_url, token)
    /\ c_response' = Answer(status, body)
    /\ c_result' = [kind |-> "returned", value |-> JsonOf(body), message |-> NoMessage]
    /\ c_text' = ""

\* Line 282: no error status, and response.json() raises; the decode error
\* (a ValueError that is no HTTPError) leaves the function as it is.
CreateDecodeFails(entry, phone_numbers, base_url, token, status, body) ==
    /\ ~IsHttpError(status)
    /\ ~body.json
    /\ Posting(entry, phone_numbers, base_url, token)
    /\ c_response' = Answer(status, body)
    /\ c_result' = [kind |-> "JSONDecodeError", value |-> <<>>, message |-> NoMessage]
    /\ c_text' = ExceptionText("JSONDecodeError")

\* Lines 281, 284-294: an error status.
CreateHttpError(entry, phone_numbers, base_url, token, status, body) ==
    /\ IsHttpError(status)
    /\ Posting(entry, phone_numbers, base_url, token)
    /\ c_response' = Answer(status, body)
    /\ c_result' = [kind |-> "ValueError", value |-> <<>>,
                    message |-> ErrorMessage(status, body)]
    /\ c_text' = ErrorText(status, EndpointsPostUrl(base_url, token), body)

\* Lines 270-275, 295-298: the request fails in transport.
CreateTransportFailure(entry, phone_numbers, base_url, token, failure) ==
    /\ Posting(entry, phone_numbers, base_url, token)
    /\ c_response' = Failure(failure)
    /\ c_result' = [kind |-> ExceptionOf(failure), value |-> <<>>, message |-> NoMessage]
    /\ c_text' = ExceptionText(ExceptionOf(failure))

\* ------------------------------------------- the callers of the creator

\* str.lower() on the letters A to Z.
LowerOf ==
    [c \in {"A", "B", "C", "D", "E", "F", "G", "H", "I", "J", "K", "L", "M",
            "N", "O", "P", "Q", "R", "S", "T", "U", "V", "W", "X", "Y", "Z"} |->
        CASE c = "A" -> "a" [] c = "B" -> "b" [] c = "C" -> "c" [] c = "D" -> "d"
          [] c = "E" -> "e" [] c = "F" -> "f" [] c = "G" -> "g" [] c = "H" -> "h"
          [] c = "I" -> "i" [] c = "J" -> "j" [] c = "K" -> "k" [] c = "L" -> "l"
          [] c = "M" -> "m" [] c = "N" -> "n" [] c = "O" -> "o" [] c = "P" -> "p"
          [] c = "Q" -> "q" [] c = "R" -> "r" [] c = "S" -> "s" [] c = "T" -> "t"
          [] c = "U" -> "u" [] c = "V" -> "v" [] c = "W" -> "w" [] c = "X" -> "x"
          [] c = "Y" -> "y" [] c = "Z" -> "z"]

RECURSIVE Lower(_)
Lower(str) ==
    IF Len(str) = 0 THEN ""
    ELSE LET c == SubSeq(str, 1, 1)
         IN  (IF c \in DOMAIN LowerOf THEN LowerOf[c] ELSE c)
             \o Lower(SubSeq(str, 2, Len(str)))

\* sub in str
Contains(str, sub) ==
    \E i \in 1..(Len(str) - Len(sub) + 1) : SubSeq(str, i, i + Len(sub) - 1) = sub

\* "already exist" in error_msg.lower()
SaysAlreadyExist(text) == Contains(Lower(text), "already exist")

\* create_endpoint.py 67-97 and 201-225: "except Exception" takes every
\* exception of the call and looks for the phrase in str(e).
TabShows(result, text) ==
    IF result.kind = "returned" THEN "success"
    ELSE IF SaysAlreadyExist(text) THEN "conflict"
    ELSE "failure"

\* add_to_org.py 30-53: only an HTTPError reaches the branch that looks for
\* the phrase; every other exception is the generic failure.
CliShows(result, text, response) ==
    IF result.kind = "returned" THEN "success"
    ELSE IF result.kind = "HTTPError"
              /\ SaysAlreadyExist(text \o " " \o response.body.text)
         THEN "conflict"
    ELSE "failure"

\* The single tab of the dashboard, after its create_single_endpoint call.
SingleTabShows ==
    /\ c_pc = "done"
    /\ c_args.entry = "create_single_endpoint"
    /\ Len(c_args.phone_numbers) = 1
    /\ c_pc' = "shown"
    /\ shown' = TabShows(c_result, c_text)
    /\ UNCHANGED <<c_args, posts, c_response, c_result, c_text, exceptCreate>>

\* The bulk tab of the dashboard, after its create_bulk_endpoints call.
BulkTabShows ==
    /\ c_pc = "done"
    /\ c_args.entry = "create_bulk_endpoints"
    /\ c_pc' = "shown"
    /\ shown' = TabShows(c_result, c_text)
    /\ UNCHANGED <<c_args, posts, c_response, c_result, c_text, exceptCreate>>

\* The add_to_org command, after its create_endpoint(phone_numbers) call.
AddToOrgShows ==
    /\ c_pc = "done"
    /\ c_args.entry = "create_endpoint"
    /\ c_args.base_url = <<>>
    /\ c_args.token = ""
    /\ Len(c_args.phone_numbers) >= 1
    /\ c_pc' = "shown"
    /\ shown' = CliShows(c_result, c_text, c_response)
    /\ UNCHANGED <<c_args, posts, c_response, c_result, c_text, exceptCreate>>

\* ------------------------------------------- the extraction of one item

\* the values a field may hold
FieldValues == {FNull, FStr(""), FStr("+9111"), FStr("x"), FInt(0), FInt(7)}
FieldNames == {PhoneFields[i] : i \in DOMAIN PhoneFields}
Objects == UNION {[D -> FieldValues] : D \in SUBSET FieldNames}
Items == {JObj(o) : o \in Objects} \cup {JStr(""), JStr("+9111"), JInt(0), JInt(7), JNull}

ExtractIdle ==
    /\ x_pc = "idle"
    /\ x_item = JNull
    /\ x_primary = {}
    /\ x_fallback = {}

ExtractInit ==
    /\ x_pc = "input"
    /\ x_item \in Items
    /\ x_primary = {}
    /\ x_fallback = {}

\* Lines 187-207 and 127-142 on one item.
ExtractItem ==
    /\ x_pc = "input"
    /\ x_pc' = "done"
    /\ x_primary' = ExtractPrimary(x_item)
    /\ x_fallback' = ExtractFallback(x_item)
    /\ x_item' = x_item
    /\ UNCHANGED exceptExtract

\* --------------------------------------------- connection normalization

\* str.strip(), on blanks
RECURSIVE StripLeft(_)
StripLeft(str) ==
    IF Len(str) > 0 /\ SubSeq(str, 1, 1) = " "
    THEN StripLeft(SubSeq(str, 2, Len(str))) ELSE str
RECURSIVE StripRight(_)
StripRight(str) ==
    IF Len(str) > 0 /\ SubSeq(str, Len(str), Len(str)) = " "
    THEN StripRight(SubSeq(str, 1, Len(str) - 1)) ELSE str
Strip(str) == StripRight(StripLeft(str))

\* d[k] = v on a copy of d
SetField(d, k, v) == [x \in DOMAIN d \cup {k} |-> IF x = k THEN v ELSE d[x]]

\* "if conn and conn.strip()"
KeepsStringUnstripped(conn) == conn # ""
KeepsString(conn) == conn # "" /\ Strip(conn) # ""

\* {"id": conn, "name": conn}
FromString(conn) == [k \in {"id", "name"} |-> FStr(conn)]

\* the fields probed for the id, in the order of the `or` chain
ConnIdFields == <<"id", "connection_id", "connectionId">>
ConnIdFieldsThenName == <<"id", "connection_id", "connectionId", "name">>

\* "if conn_id and str(conn_id).strip()"
ValidId(conn_id) == Truthy(conn_id) /\ Strip(PyStr(conn_id)) # ""

\* conn.copy() with id set, and name set when missing or falsy
WithIdAndName(conn, conn_id) ==
    LET id == FStr(Strip(PyStr(conn_id)))
        withId == SetField(conn, "id", id)
    IN  IF ~Truthy(Get(withId, "name")) THEN SetField(withId, "name", id)
        ELSE withId

\* utils.py 174-200: what one entry adds to `connections`.
WorkspaceConnection(conn) ==
    IF conn.t = "str"
    THEN IF KeepsString(conn.s) THEN <<FromString(conn.s)>> ELSE <<>>
    ELSE IF conn.t = "obj"
    THEN LET conn_id == OrChain(conn.o, ConnIdFields)
         IN  IF ValidId(conn_id) THEN <<WithIdAndName(conn.o, conn_id)>> ELSE <<>>
    ELSE <<>>

RECURSIVE WorkspaceConnections(_)
WorkspaceConnections(connections_raw) ==
    IF connections_raw = <<>> THEN <<>>
    ELSE WorkspaceConnection(Head(connections_raw))
         \o WorkspaceConnections(Tail(connections_raw))

\* multi_org_config.py 84-88: channel_provider, "exotel" when none is given
WithChannelProvider(conn) ==
    IF "channel_provider" \in DOMAIN conn THEN conn
    ELSE SetField(conn, "channel_provider",
                  IF Truthy(Get(conn, "provider")) THEN conn["provider"]
                  ELSE FStr("exotel"))

\* multi_org_config.py 60-90: what one entry adds to `normalized`; the
\* entries are connections as values (a dict is an object of fields).
NormalizedConnection(conn) ==
    IF conn.t = "str"
    THEN IF KeepsString(conn.s) THEN <<FromString(conn.s)>> ELSE <<>>
    ELSE IF conn.t = "obj"
    THEN LET conn_id == OrChain(conn.o, ConnIdFieldsThenName)
         IN  IF ValidId(conn_id)
             THEN <<WithChannelProvider(WithIdAndName(conn.o, conn_id))>>
             ELSE <<>>
    ELSE <<>>

\* _normalize_connections over a list of connection dicts
RECURSIVE NormalizeConnections(_)
NormalizeConnections(connections) ==
    IF connections = <<>> THEN <<>>
    ELSE NormalizedConnection(JObj(Head(connections)))
         \o NormalizeConnections(Tail(connections))

\* The entries a response may hold.
ConnEntries ==
    {JStr(""), JStr("  "), JStr("xyz"), JStr(" xyz "), JNull,
     JObj([k \in {"connection_id"} |-> FStr("abc")]),
     JObj([k \in {"id", "connection_id"} |->
              IF k = "id" THEN FStr("  ") ELSE FStr("abc")]),
     JObj([k \in {"id", "name", "connectionId"} |->
              IF k = "id" THEN FStr(" a ") ELSE IF k = "name" THEN FStr("") ELSE FStr("q")]),
     JObj([k \in {"name", "provider"} |->
              IF k = "name" THEN FStr("n") ELSE FStr("tata_tele")]),
     JObj([k \in {"id", "name"} |-> IF k = "id" THEN FInt(7) ELSE FStr("N")])}
\* the entries most responses are made of
UsualEntries ==
    {JStr(""), JStr("  "), JStr("xyz"), JObj([k \in {"connection_id"} |-> FStr("abc")])}
\* lists of entries, at most two of them out of the usual
ConnLists ==
    {l \in UNION {[1..n -> ConnEntries] : n \in 0..MaxConns} :
        Cardinality({i \in DOMAIN l : l[i] \notin UsualEntries}) <= 2}

\* The decoded response: a list, a mapping with "items", one connection as
\* a mapping, or anything else.
ConnBodies ==
    {[shape |-> sh, entries |-> l] : sh \in {"list", "items"}, l \in ConnLists}
    \cup {[shape |-> "single", entries |-> <<e>>] : e \in {x \in ConnEntries : x.t = "obj"}}
    \cup {[shape |-> "other", entries |-> <<>>]}

\* utils.py 159-171: connections_raw of a decoded response
ConnectionsRaw(result) ==
    IF result.shape \in {"list", "items", "single"} THEN result.entries ELSE <<>>

\* multi_org_config.py 385-412: the provider entries built from the cached
\* connections of one workspace (the connection and provider_name of each).
RECURSIVE ProviderList(_)
ProviderList(connections) ==
    IF connections = <<>> THEN <<>>
    ELSE LET connection == Head(connections)
             connection_id == Get(connection, "id")
             channel_provider ==
                 IF Truthy(Get(connection, "channel_provider"))
                 THEN connection["channel_provider"]
                 ELSE IF Truthy(Get(connection, "provider")) THEN connection["provider"]
                 ELSE FStr("exotel")
         IN  (IF ~Truthy(connection_id) \/ Strip(PyStr(connection_id)) = "" THEN <<>>
              ELSE <<[connection |-> PyStr(connection_id),
                      provider_name |-> PyStr(channel_provider)]>>)
             \o ProviderList(Tail(connections))

ConnIdle ==
    /\ n_pc = "idle"
    /\ n_raw = <<>>
    /\ n_returned = <<>>
    /\ n_cached = <<>>
    /\ n_lookups = 0

\* utils.py 155-203: get_connections_from_workspace on a 2xx answer.
GetConnections ==
    /\ n_pc = "idle"
    /\ \E result \in ConnBodies :
          /\ n_raw' = ConnectionsRaw(result)
          /\ n_returned' = WorkspaceConnections(ConnectionsRaw(result))
    /\ n_pc' = "returned"
    /\ UNCHANGED <<n_cached, n_lookups, exceptConn>>

\* utils.py 204-208: an error status; raise_for_status raises HTTPError.
GetConnectionsRaises ==
    /\ n_pc = "idle"
    /\ n_pc' = "raised"
    /\ UNCHANGED <<n_raw, n_returned, n_cached, n_lookups, exceptConn>>

\* multi_org_config.py 118-143: _get_org_full_data stores the connections of
\* a workspace, normalized, or none when the call raised.
StoreOrgData ==
    /\ n_pc \in {"returned", "raised"}
    /\ n_pc' = "cached"
    /\ n_cached' = IF n_pc = "raised" THEN <<>> ELSE NormalizeConnections(n_returned)
    /\ UNCHANGED <<n_raw, n_returned, n_lookups, exceptConn>>

\* multi_org_config.py 144-153: a later _get_org_full_data call finds the
\* key and normalizes the cached connections again.
LookupOrgData ==
    /\ n_pc = "cached"
    /\ n_lookups < MaxLookups
    /\ n_lookups' = n_lookups + 1
    /\ n_cached' = NormalizeConnections(n_cached)
    /\ UNCHANGED <<n_pc, n_raw, n_returned, exceptConn>>

\* ----------------------------------------------------- is_number_available

\* str.replace(ch, "") for a one-character ch
RECURSIVE Remove(_, _)
Remove(str, ch) ==
    IF Len(str) = 0 THEN ""
    ELSE (IF SubSeq(str, 1, 1) = ch THEN "" ELSE SubSeq(str, 1, 1))
         \o Remove(SubSeq(str, 2, Len(str)), ch)

\* helpers.py 23: phone_number.strip().replace(" ", "").replace("-", "")
normalize_phone_number(phone_number) == Remove(Remove(Strip(phone_number), " "), "-")

\* helpers.py 121-125: normalized in numbers or phone_number in numbers
is_number_available(phone_number, numbers) ==
    normalize_phone_number(phone_number) \in numbers \/ phone_number \in numbers

\* The numbers a fetch may have put in the set (the fetcher stores a string
\* item as it came), and the candidates an operator may type.
WrittenNumbers == {"+91111", "+91 111", "+91-111", " +91111", "+92222", "+92-222"}
NumberSets == SUBSET WrittenNumbers

AvailIdle ==
    /\ a_pc = "idle"
    /\ a_set = {}
    /\ a_candidate = ""
    /\ a_result = FALSE

AvailInit ==
    /\ a_pc = "input"
    /\ a_set \in NumberSets
    /\ a_candidate \in WrittenNumbers
    /\ a_result = FALSE

\* helpers.py 99-125 with a numbers_set (None stands for the empty set).
IsNumberAvailable ==
    /\ a_pc = "input"
    /\ a_pc' = "done"
    /\ a_result' = is_number_available(a_candidate, a_set)
    /\ UNCHANGED <<a_set, a_candidate, exceptAvail>>

\* ------------------------------------------- the cache in session_state

Envs == {"prod", "qa"}
OrgIds == {"o_qa"}

\* the cache keys, as the f-strings build them
AdminTokenKey(env) == "admin_token_" \o env
OrgsDataKey(env) == "orgs_data_" \o env
OrgFullDataKey(org_id, env) == "org_full_data_" \o org_id \o "_" \o env

\* str.startswith, str.endswith
StartsWith(str, prefix) ==
    Len(str) >= Len(prefix) /\ SubSeq(str, 1, Len(prefix)) = prefix
EndsWith(str, suffix) ==
    Len(str) >= Len(suffix)
    /\ SubSeq(str, Len(str) - Len(suffix) + 1, Len(str)) = suffix

\* An entry: the version of the server's data it was fetched at and, for
\* the full data of an organization, the connections of each workspace.
Entry(version, connections) == [version |-> version, connections |-> connections]

\* session_state[key] = entry, and del session_state[key] for a set of keys
Put(state, key, entry) ==
    [x \in DOMAIN state \cup {key} |-> IF x = key THEN entry ELSE state[x]]
Without(state, keys) == [x \in DOMAIN state \ keys |-> state[x]]

\* The workspaces get_workspaces lists for an organization.
Workspaces == {"w1", "w2"}

\* What the connections request of workspace w1 may answer (it is the one
\* that may fail), and what the one of workspace w2 answers.
SecondWorkspaceAnswer == <<JObj([k \in {"id"} |-> FStr("c2")])>>
WorkspaceAnswers ==
    {<<>>, <<JStr(" xyz ")>>,
     <<JStr(""), JStr("  "), JObj([k \in {"connection_id"} |-> FStr("abc")]), JStr("xyz")>>}

\* The request that fails in an operation, if any.
Failing == {"none", "login", "resource", "connections"}

\* A finished lookup: the state it leaves, the requests it sent, whether it
\* raised.
Done(state, requests, raised) == [state |-> state, requests |-> requests, raised |-> raised]

\* multi_org_config.py 21-29: _get_admin_token
TokenLookupAlwaysLogsIn(state, env, failing, version) ==
    IF failing = "login" THEN Done(state, <<"login">>, TRUE)
    ELSE Done(Put(state, AdminTokenKey(env), Entry(version, <<>>)), <<"login">>, FALSE)
TokenLookup(state, env, failing, version) ==
    IF AdminTokenKey(env) \in DOMAIN state THEN Done(state, <<>>, FALSE)
    ELSE IF failing = "login" THEN Done(state, <<"login">>, TRUE)
    ELSE Done(Put(state, AdminTokenKey(env), Entry(version, <<>>)), <<"login">>, FALSE)

\* multi_org_config.py 32-42: _get_orgs_data
OrgsLookup(state, env, failing, version) ==
    IF OrgsDataKey(env) \in DOMAIN state THEN Done(state, <<>>, FALSE)
    ELSE LET token == TokenLookup(state, env, failing, version)
         IN  IF token.raised THEN token
             ELSE IF failing = "resource"
             THEN Done(token.state, Append(token.requests, "get_orgs"), TRUE)
             ELSE Done(Put(token.state, OrgsDataKey(env), Entry(version, <<>>)),
                       Append(token.requests, "get_orgs"), FALSE)

\* multi_org_config.py 109-135: the connections of each workspace; a
\* request that fails leaves the workspace an empty list.
FailedWorkspace(failing) == IF failing = "connections" THEN "w1" ELSE ""

\* what workspace w2 holds once its answer is read and normalized
SecondWorkspaceConnections ==
    NormalizeConnections(WorkspaceConnections(SecondWorkspaceAnswer))

ConnectionsAllDropped(failing, answer) ==
    [w \in Workspaces |->
        IF FailedWorkspace(failing) # "" THEN <<>>
        ELSE IF w = "w1" THEN NormalizeConnections(WorkspaceConnections(answer))
        ELSE SecondWorkspaceConnections]

ConnectionsByWorkspace(failing, answer) ==
    [w \in Workspaces |->
        IF w = FailedWorkspace(failing) THEN <<>>
        ELSE IF w = "w1" THEN NormalizeConnections(WorkspaceConnections(answer))
        ELSE SecondWorkspaceConnections]

\* the requests for the connections, as the log of an operation keeps them
ConnectionRequests(failing) ==
    <<IF FailedWorkspace(failing) = "w1" THEN "get_connections w1 failed"
      ELSE "get_connections w1",
      "get_connections w2">>

\* multi_org_config.py 95-153: _get_org_full_data, for an organization with
\* two workspaces.
OrgFullLookup(state, org_id, env, failing, version, answer) ==
    LET key == OrgFullDataKey(org_id, env)
    IN  IF key \in DOMAIN state
        THEN Done(Put(state, key,
                      Entry(state[key].version,
                            [w \in DOMAIN state[key].connections |->
                                NormalizeConnections(state[key].connections[w])])),
                  <<>>, FALSE)
        ELSE LET token == TokenLookup(state, env, failing, version)
             IN  IF token.raised THEN token
                 ELSE IF failing = "resource"
                 THEN Done(token.state, Append(token.requests, "get_workspaces"), TRUE)
                 ELSE Done(Put(token.state, key,
                               Entry(version, ConnectionsByWorkspace(failing, answer))),
                           token.requests \o <<"get_workspaces">>
                               \o ConnectionRequests(failing),
                           FALSE)

\* multi_org_config.py 567-587: the keys clear_cache deletes
ClearedKeysOfAnyEnv(state, env) ==
    {AdminTokenKey(env), OrgsDataKey(env)}
    \cup {key \in DOMAIN state : StartsWith(key, "org_full_data_")}
ClearedKeys(state, env) ==
    {AdminTokenKey(env), OrgsDataKey(env)}
    \cup {key \in DOMAIN state :
            StartsWith(key, "org_full_data_") /\ EndsWith(key, "_" \o env)}

NoLast ==
    [op |-> "none", key |-> "", env |-> "", hit |-> FALSE, raised |-> FALSE,
     requests |-> <<>>, before |-> <<>>]

\* what an operation leaves in k_last
Last2(op, key, env, result) ==
    [op |-> op, key |-> key, env |-> env, hit |-> key \in DOMAIN session_state,
     raised |-> result.raised, requests |-> result.requests,
     before |-> session_state]

CacheIdle ==
    /\ k_pc = "off"
    /\ session_state = <<>>
    /\ server = 0
    /\ k_last = NoLast

\* The session keys that are no cache entries: auth.py's flag and the
\* sidebar's selection and loaded numbers.
OtherSessionKeys == {"authenticated", "selected_org", "numbers_loaded", "phone_numbers"}
OtherSession ==
    [key \in OtherSessionKeys |->
        CASE key = "authenticated" -> Entry(1, <<>>)
          [] key = "selected_org" -> Entry(0, <<"acme">>)
          [] key = "numbers_loaded" -> Entry(1, <<>>)
          [] OTHER -> Entry(0, <<"+91111">>)]

CacheInit ==
    /\ k_pc = "on"
    /\ session_state = OtherSession
    /\ server = 0
    /\ k_last = NoLast

\* The data behind the API changes (a new token, a new organization, ...).
ServerChanges ==
    /\ k_pc = "on"
    /\ server < MaxVersion
    /\ server' = server + 1
    /\ UNCHANGED <<k_pc, session_state, k_last, exceptCache>>

GetAdminToken ==
    /\ k_pc = "on"
    /\ \E env \in Envs, failing \in Failing :
          LET result == TokenLookup(session_state, env, failing, server)
          IN  /\ session_state' = result.state
              /\ k_last' = Last2("_get_admin_token", AdminTokenKey(env), env, result)
    /\ UNCHANGED <<k_pc, server, exceptCache>>

GetOrgsData ==
    /\ k_pc = "on"
    /\ \E env \in Envs, failing \in Failing :
          LET result == OrgsLookup(session_state, env, failing, server)
          IN  /\ session_state' = result.state
              /\ k_last' = Last2("_get_orgs_data", OrgsDataKey(env), env, result)
    /\ UNCHANGED <<k_pc, server, exceptCache>>

GetOrgFullData ==
    /\ k_pc = "on"
    /\ \E org_id \in OrgIds, env \in Envs, failing \in Failing,
          answer \in WorkspaceAnswers :
          LET result == OrgFullLookup(session_state, org_id, env, failing, server, answer)
          IN  /\ session_state' = result.state
              /\ k_last' = Last2("_get_org_full_data", OrgFullDataKey(org_id, env),
                                env, result)
    /\ UNCHANGED <<k_pc, server, exceptCache>>

ClearCache ==
    /\ k_pc = "on"
    /\ \E env \in Envs :
          /\ session_state' = Without(session_state, ClearedKeys(session_state, env))
          /\ k_last' = Last2("clear_cache", "", env, Done(<<>>, <<>>, FALSE))
    /\ UNCHANGED <<k_pc, server, exceptCache>>

\* ------------------------------------------------------ get_org_id_by_name

\* str(org.get(k, "")) for an organization whose fields are strings
Field(org, k) == IF k \in DOMAIN org THEN org[k] ELSE ""

\* str.split(".")[0]
RECURSIVE FirstPart(_)
FirstPart(str) ==
    IF Len(str) = 0 \/ SubSeq(str, 1, 1) = "." THEN ""
    ELSE SubSeq(str, 1, 1) \o FirstPart(SubSeq(str, 2, Len(str)))

\* a or b or c on strings
Or3(a, b, c) == IF a # "" THEN a ELSE IF b # "" THEN b ELSE c

\* multi_org_config.py 204-250: whether the organization matches, and by
\* which field ("" when it does not match).
MatchedField(org, search_name) ==
    LET org_name_field == Strip(Lower(Field(org, "name")))
        org_display_name == Strip(Lower(Field(org, "display_name")))
        org_domain == Strip(Lower(Field(org, "domain")))
        org_org_domain == Strip(Lower(Field(org, "org_domain")))
        org_id_field == Strip(Lower(Field(org, "id")))
        org_org_id == Strip(Lower(Field(org, "org_id")))
        org_orgId == Strip(Lower(Field(org, "orgId")))
    IN  IF search_name \in {org_name_field, org_display_name, org_domain,
                            org_org_domain, org_id_field, org_org_id, org_orgId}
        THEN IF search_name \in {org_domain, org_org_domain} THEN "domain"
             ELSE IF search_name \in {org_name_field, org_display_name} THEN "name"
             ELSE "id"
        ELSE IF /\ search_name # ""
                /\ \/ Contains(org_name_field, search_name)
                   \/ Contains(org_display_name, search_name)
                   \/ Contains(org_domain, search_name)
                   \/ Contains(org_org_domain, search_name)
                   \/ (org_name_field # "" /\ Contains(search_name, org_name_field))
        THEN "partial"
        ELSE ""

\* multi_org_config.py 252-304: what a matching organization makes the
\* function return, <<>> when the loop goes on to the next organization.
ReturnedFor(org, org_name, matched_field) ==
    LET actual_org_id == IF Field(org, "org_id") # "" THEN Field(org, "org_id")
                         ELSE Field(org, "orgId")
        domain_to_use == Or3(Field(org, "org_domain"), Field(org, "domain"), org_name)
        domain_to_extract == Or3(Field(org, "org_domain"), Field(org, "domain"), "")
    IN  IF actual_org_id # "" THEN <<actual_org_id>>
        ELSE IF Field(org, "id") # "" /\ Field(org, "id") # Field(org, "domain")
        THEN <<Field(org, "id")>>
        ELSE IF matched_field = "domain" /\ domain_to_use # "" THEN <<domain_to_use>>
        ELSE IF matched_field = "domain" /\ Contains(org_name, ".")
        THEN <<FirstPart(org_name)>>
        ELSE IF domain_to_extract # "" /\ Contains(domain_to_extract, ".")
        THEN <<FirstPart(domain_to_extract)>>
        ELSE IF Contains(org_name, ".") THEN <<FirstPart(org_name)>>
        ELSE <<>>

\* multi_org_config.py 313-322: after the loop
AfterLoop(org_name) ==
    IF Contains(org_name, ".") THEN <<FirstPart(org_name)>> ELSE <<>>

\* multi_org_config.py 204-311: the loop over the organizations
RECURSIVE OrgLoop(_, _)
OrgLoop(orgs, org_name) ==
    IF orgs = <<>> THEN AfterLoop(org_name)
    ELSE LET matched_field == MatchedField(Head(orgs), Strip(Lower(org_name)))
             returned == ReturnedFor(Head(orgs), org_name, matched_field)
         IN  IF matched_field # "" /\ returned # <<>> THEN returned
             ELSE OrgLoop(Tail(orgs), org_name)

\* multi_org_config.py 187-322
get_org_id_by_name(org_name, orgs) ==
    IF orgs = <<>> THEN <<>> ELSE OrgLoop(orgs, org_name)

\* The organizations the API may list and the names an operator may give.
Orgs ==
    {[k \in {"name", "org_id"} |-> IF k = "name" THEN "Acme" ELSE "A1"],
     [k \in {"name", "domain"} |-> IF k = "name" THEN "Axis" ELSE "axisbank.com"],
     [k \in {"name", "id", "domain"} |->
         IF k = "name" THEN "Beta" ELSE IF k = "id" THEN "b-1" ELSE "beta.io"],
     [k \in {"display_name", "orgId"} |-> IF k = "display_name" THEN "Acme Corp" ELSE "C9"],
     [k \in {"id", "domain"} |-> "gamma.io"]}
OrgLists == UNION {[1..n -> Orgs] : n \in 0..MaxOrgs}
OrgNames == {"acme", " Acme ", "axisbank.com", "b-1", "gamma.io", "foo.com", "zzz"}

OrgIdle ==
    /\ o_pc = "idle"
    /\ o_orgs = <<>>
    /\ o_name = ""
    /\ o_result = <<>>

OrgInit ==
    /\ o_pc = "input"
    /\ o_orgs \in OrgLists
    /\ o_name \in OrgNames
    /\ o_result = <<>>

GetOrgIdByName ==
    /\ o_pc = "input"
    /\ o_pc' = "done"
    /\ o_result' = get_org_id_by_name(o_name, o_orgs)
    /\ UNCHANGED <<o_orgs, o_name, exceptOrg>>

\* ------------------------------------------------ utils.get_phone_numbers

\* The items of a connection's resource; the same number may be listed twice.
NumberCatalogue ==
    <<JObj([k \in {"phone_number"} |-> FStr("+911")]),
      JObj([k \in {"phone_number"} |-> FStr("+911")]),
      JStr("+912"),
      JObj([k \in {"id"} |-> FStr("x")]),
      JStr("+913")>>

\* The decoded answers: a mapping with "items" (has_more absent, true or
\* false), a list, one object that is no page (empty or not), anything else.
PhonesBody(shape, page, hm) ==
    [shape |-> shape, items |-> IF shape \in {"items", "list"} THEN page ELSE <<>>,
     has_more |-> IF shape = "items" THEN hm ELSE "absent"]
PhonesShapes == {"items", "list", "single", "empty-dict", "other"}
SingleResult == JObj([k \in {"detail"} |-> FStr("one")])

\* utils.py 271-288: page_items and has_more of a decoded answer
PhonesNormalize(result, lim) ==
    IF result.shape = "items"
    THEN [page_items |-> result.items,
          has_more |-> IF result.has_more = "absent" THEN Len(result.items) = lim
                       ELSE result.has_more = "true"]
    ELSE IF result.shape = "single" THEN [page_items |-> <<SingleResult>>, has_more |-> FALSE]
    ELSE IF result.shape = "empty-dict" THEN [page_items |-> <<>>, has_more |-> FALSE]
    ELSE IF result.shape = "list"
    THEN [page_items |-> result.items, has_more |-> Len(result.items) = lim]
    ELSE [page_items |-> <<>>, has_more |-> FALSE]

\* utils.py 290-292 and 301-303: the two tests that leave the loop
PhonesStopsOnShortOnly(page_items, has_more, lim) ==
    page_items = <<>> \/ Len(page_items) < lim
PhonesStops(page_items, has_more, lim) ==
    page_items = <<>> \/ Len(page_items) < lim \/ ~has_more

PhonesStatuses == {401, 404, 500}

PhonesRequest(off, status, failure, result, norm) ==
    [offset |-> off, status |-> status, failure |-> failure, shape |-> result.shape,
     flag |-> result.has_more, page_items |-> norm.page_items, has_more |-> norm.has_more]

PhonesIdle ==
    /\ p_pc = "idle"
    /\ p_total = 0
    /\ p_limit = 0
    /\ p_offset = 0
    /\ p_all = <<>>
    /\ p_outcome = "none"
    /\ p_returned = <<>>
    /\ p_log = <<>>

PhonesInit ==
    /\ p_pc = "idle"
    /\ p_total \in 0..MaxItems
    /\ p_limit = 0
    /\ p_offset = 0
    /\ p_all = <<>>
    /\ p_outcome = "none"
    /\ p_returned = <<>>
    /\ p_log = <<>>

\* utils.py 214-257: the call, up to the head of the loop.
PhonesCall ==
    /\ p_pc = "idle"
    /\ p_pc' = "loop"
    /\ \E l \in 1..MaxLimit : p_limit' = l
    /\ p_offset' = 0
    /\ p_all' = <<>>
    /\ UNCHANGED <<p_total, p_outcome, p_returned, p_log, exceptPhones>>

\* utils.py 258-309: one turn of the loop on a 2xx answer.
PhonesPageOk ==
    /\ p_pc = "loop"
    /\ \E shape \in PhonesShapes, hm \in HasMoreValues :
          LET result == PhonesBody(shape, Page(NumberCatalogue, p_total, p_offset, p_limit), hm)
              norm == PhonesNormalize(result, p_limit)
              all == p_all \o norm.page_items
          IN  /\ p_log' = Append(p_log, PhonesRequest(p_offset, 200, "none", result, norm))
              /\ p_all' = all
              /\ IF PhonesStops(norm.page_items, norm.has_more, p_limit)
                 THEN /\ p_pc' = "done"
                      /\ p_outcome' = "returned"
                      /\ p_returned' = <<all>>
                      /\ p_offset' = p_offset
                 ELSE /\ p_pc' = "loop"
                      /\ p_offset' = p_offset + p_limit
                      /\ UNCHANGED <<p_outcome, p_returned>>
    /\ UNCHANGED <<p_total, p_limit, exceptPhones>>

\* utils.py 266-267, 310-314: an error status; raise_for_status raises the
\* HTTPError, which is logged and raised again.
PhonesHttpError ==
    /\ p_pc = "loop"
    /\ \E status \in PhonesStatuses :
          p_log' = Append(p_log, PhonesRequest(p_offset, status, "none",
                                               PhonesBody("other", <<>>, "absent"),
                                               [page_items |-> <<>>, has_more |-> FALSE]))
    /\ p_pc' = "done"
    /\ p_outcome' = "raised"
    /\ UNCHANGED <<p_total, p_limit, p_offset, p_all, p_returned, exceptPhones>>

\* utils.py 266: the request fails in transport; the exception leaves the
\* function.
PhonesTransportFailure ==
    /\ p_pc = "loop"
    /\ \E failure \in TransportFailures :
          p_log' = Append(p_log, PhonesRequest(p_offset, 0, failure,
                                               PhonesBody("other", <<>>, "absent"),
                                               [page_items |-> <<>>, has_more |-> FALSE]))
    /\ p_pc' = "done"
    /\ p_outcome' = "raised"
    /\ UNCHANGED <<p_total, p_limit, p_offset, p_all, p_returned, exceptPhones>>

\* ----------------------------- the primary path's reading of one body

\* The pages a body may hold under a key.
Pages == {SubSeq(PhoneCatalogue, 1, n) : n \in 0..MaxItems}
OptionalPages == {<<>>} \cup {<<p>> : p \in Pages}

\* Decoded bodies: mappings with any of items, data, results, lists, other.
Bodies ==
    {DictBody(i, d, r, hm) : i \in OptionalPages, d \in OptionalPages,
                             r \in OptionalPages, hm \in HasMoreValues}
    \cup {ListBody(p) : p \in Pages} \cup {OtherBody}

NormIdle ==
    /\ z_pc = "idle"
    /\ z_body = OtherBody
    /\ z_limit = 0
    /\ z_norm = <<>>

NormInit ==
    /\ z_pc = "decoded"
    /\ z_body \in Bodies
    /\ z_limit \in 1..MaxLimit
    /\ z_norm = <<>>

\* api_client.py 163-183: from the decoded body to items and has_more.
Normalize ==
    /\ z_pc = "decoded"
    /\ z_pc' = "normalized"
    /\ z_norm' = <<PrimaryNormalize(z_body, z_limit)>>
    /\ UNCHANGED <<z_body, z_limit, exceptNorm>>

\* ------------------------------ one body read by the two paths of the loop

\* api_client.py 163-213: items, has_more, the values added and whether the
\* loop goes on to the next page, on the primary path.
PrimaryReading(body, lim) ==
    LET norm == PrimaryNormalize(body, lim)
    IN  [items |-> norm.items, has_more |-> norm.has_more,
         values |-> ExtractAllPrimary(norm.items),
         continues |-> ~PrimaryStops(norm, lim)]

\* api_client.py 105-154: the same four, on the fallback path.
FallbackReading(body, lim) ==
    LET norm == FallbackNormalize(body, lim)
    IN  [items |-> norm.items, has_more |-> norm.has_more,
         values |-> ExtractAllFallback(norm.items),
         continues |-> FallbackContinues(norm, lim)]

ShapeIdle ==
    /\ s_pc = "idle"
    /\ s_body = OtherBody
    /\ s_limit = 0
    /\ s_primary = <<>>
    /\ s_fallback = <<>>

ShapeInit ==
    /\ s_pc = "decoded"
    /\ s_body \in Bodies
    /\ s_limit \in 1..MaxLimit
    /\ s_primary = <<>>
    /\ s_fallback = <<>>

\* The body as an answer of the primary URL and as one of the endpoints URL.
ReadBothWays ==
    /\ s_pc = "decoded"
    /\ s_pc' = "read"
    /\ s_primary' = <<PrimaryReading(s_body, s_limit)>>
    /\ s_fallback' = <<FallbackReading(s_body, s_limit)>>
    /\ UNCHANGED <<s_body, s_limit, exceptShape>>

\* -------------------------------------------- the dashboard: one session

\* get_org_list() and get_providers_for_org(org), as the cached
\* organization data gives them.
DashOrgs == {"acme", "beta"}
OrgIdFor(org) == IF org = "acme" THEN "o1" ELSE "o2"
ProvidersFor(org) ==
    IF org = "acme"
    THEN <<[connection |-> "c1", workspace_id |-> "w1", provider_name |-> "exotel"],
           [connection |-> "c2", workspace_id |-> "w1", provider_name |-> "tata_tele"]>>
    ELSE <<[connection |-> "c3", workspace_id |-> "w2", provider_name |-> "exotel"]>>

\* get_token_for_org(org): the admin token
AdminToken == "admin-token"

\* sidebar.py 167-189: the URL and token of a selected provider.
ProviderApiUrl(org, idx) ==
    LET current_provider == ProvidersFor(org)[idx]
    IN  BuildApiUrl(BaseUrl, OrgIdFor(org), current_provider.workspace_id,
                    current_provider.provider_name, current_provider.connection)

\* The numbers the backend holds behind a phone-numbers URL.
ResourceNumbers(url) ==
    IF url = PhoneNumbersUrl(ProviderApiUrl("acme", 1)) THEN {"+91111", "+92222"}
    ELSE IF url = PhoneNumbersUrl(ProviderApiUrl("acme", 2)) THEN {"+93333"}
    ELSE IF url = PhoneNumbersUrl(ProviderApiUrl("beta", 1)) THEN {"+94444"}
    ELSE {}

\* What fetch_all_available_numbers(api_url, token) may return: the numbers
\* of the pages it got; nothing when its first page is cut short by a 401, an
\* error status or a timeout (api_client.py 68-69, 215-218).
FirstPages == {"ok", "401", "http-error", "timeout"}
FetchOutcomes(api_url) ==
    {[first |-> f, numbers |-> s] :
        <<f, s>> \in {x \in FirstPages \X SUBSET ResourceNumbers(PhoneNumbersUrl(api_url)) :
                         x[1] # "ok" => x[2] = {}}}

\* What an operator types: one number, or the lines of the text area.
TypedNumbers == {"", "+91111", "+91 111", "+93333"}
TypedLines == {"", "+92222", " +91111", "+91 111", "+93333"}
BulkTexts == UNION {[1..n -> TypedLines] : n \in 0..MaxBatch}

\* the session as a record
Session ==
    [selected_org |-> ss_selected_org, selected_provider_idx |-> ss_selected_provider_idx,
     numbers_loaded |-> ss_numbers_loaded, phone_numbers |-> ss_phone_numbers,
     last_refresh |-> ss_last_refresh, current_api_url |-> ss_current_api_url,
     current_token |-> ss_current_token, csv_file |-> csv_file]

NoSession ==
    [selected_org |-> "", selected_provider_idx |-> 0, numbers_loaded |-> FALSE,
     phone_numbers |-> {}, last_refresh |-> 0, current_api_url |-> <<>>,
     current_token |-> "", csv_file |-> FALSE]

LastAction(op, fetched, post) ==
    [op |-> op, before |-> Session, fetched |-> fetched, post |-> post,
     check |-> FALSE, typed |-> <<>>]

CreateAction(op, check, typed, post) ==
    [op |-> op, before |-> Session, fetched |-> <<>>, post |-> post,
     check |-> check, typed |-> typed]

DashIdle ==
    /\ ss_selected_org = ""
    /\ ss_selected_provider_idx = 0
    /\ ss_numbers_loaded = FALSE
    /\ ss_phone_numbers = {}
    /\ ss_last_refresh = 0
    /\ ss_current_api_url = <<>>
    /\ ss_current_token = ""
    /\ csv_file = FALSE
    /\ d_clock = 0
    /\ d_last = [op |-> "off", before |-> NoSession, fetched |-> <<>>, post |-> <<>>,
                 check |-> FALSE, typed |-> <<>>]

\* sidebar.py 21-26, 46-63: the session of a first run; the CSV snapshot of
\* an earlier get_avl_number run may lie there.
DashInit ==
    /\ ss_selected_org = ""
    /\ ss_selected_provider_idx = 0
    /\ ss_numbers_loaded = FALSE
    /\ ss_phone_numbers = {}
    /\ ss_last_refresh = 0
    /\ ss_current_api_url = <<>>
    /\ ss_current_token = ""
    /\ csv_file \in BOOLEAN
    /\ d_clock = 0
    /\ d_last = [op |-> "start", before |-> NoSession, fetched |-> <<>>, post |-> <<>>,
                 check |-> FALSE, typed |-> <<>>]

\* sidebar.py 99-102 and 160-163: "Clear loaded data"
ClearNothing == UNCHANGED <<ss_numbers_loaded, ss_phone_numbers, ss_last_refresh>>
ClearLoadedData ==
    /\ ss_numbers_loaded' = FALSE
    /\ ss_phone_numbers' = {}
    /\ ss_last_refresh' = 0

\* sidebar.py 84-116 and, after st.rerun(), 109-116 or 119-212: another
\* organization (or the prompt) is chosen in the selectbox.
SelectOrg ==
    /\ d_last.op # "off"
    /\ d_clock < MaxActions
    /\ \E selected_org \in DashOrgs \cup {""} :
          /\ selected_org # ss_selected_org
          /\ ss_selected_org' = selected_org
    /\ ss_selected_provider_idx' = 0
    /\ ClearLoadedData
    /\ ss_current_api_url' = <<>>
    /\ ss_current_token' = ""
    /\ d_clock' = d_clock + 1
    /\ d_last' = LastAction("org", <<>>, <<>>)
    /\ UNCHANGED <<csv_file, exceptDash>>

\* sidebar.py 140-164 and, after st.rerun(), 167-212: another provider (or
\* the placeholder) is chosen in the selectbox of the selected organization.
SelectProvider ==
    /\ d_last.op # "off"
    /\ d_clock < MaxActions
    /\ ss_selected_org # ""
    /\ \E selected_provider_idx \in 0..Len(ProvidersFor(ss_selected_org)) :
          /\ selected_provider_idx # ss_selected_provider_idx
          /\ ss_selected_provider_idx' = selected_provider_idx
          /\ IF selected_provider_idx # 0
             THEN /\ ss_current_api_url' = ProviderApiUrl(ss_selected_org, selected_provider_idx)
                  /\ ss_current_token' = AdminToken
             ELSE /\ ss_current_api_url' = <<>>
                  /\ ss_current_token' = ""
    /\ ClearLoadedData
    /\ d_clock' = d_clock + 1
    /\ d_last' = LastAction("provider", <<>>, <<>>)
    /\ UNCHANGED <<ss_selected_org, csv_file, exceptDash>>

\* sidebar.py 274-294: no numbers came back; a message is shown
NothingFoundForgets == ClearLoadedData /\ csv_file' = FALSE
NothingFound ==
    UNCHANGED <<ss_phone_numbers, ss_numbers_loaded, ss_last_refresh, csv_file>>

\* sidebar.py 301-303: the CSV file is deleted
KeepCsv == UNCHANGED csv_file
UnlinkCsv == csv_file' = FALSE

\* sidebar.py 250-318: the "Refresh from API" button, enabled while a
\* provider is selected.
RefreshFromApi ==
    /\ d_last.op # "off"
    /\ d_clock < MaxActions
    /\ ss_selected_provider_idx # 0
    /\ ss_current_api_url # <<>> /\ ss_current_token # ""
    /\ \E fetched \in FetchOutcomes(ss_current_api_url) :
          /\ d_last' = LastAction("refresh", <<fetched>>, <<>>)
          /\ IF fetched.numbers = {}
             THEN NothingFound
             ELSE /\ ss_phone_numbers' = fetched.numbers
                  /\ ss_numbers_loaded' = TRUE
                  /\ ss_last_refresh' = d_clock + 1
                  /\ UnlinkCsv
    /\ d_clock' = d_clock + 1
    /\ UNCHANGED <<ss_selected_org, ss_selected_provider_idx, ss_current_api_url,
                   ss_current_token, exceptDash>>

\* create_endpoint.py 144-146: the lines of the text area, stripped, the
\* blank ones left out
RECURSIVE NumbersList(_)
NumbersList(bulk_numbers) ==
    IF bulk_numbers = <<>> THEN <<>>
    ELSE (IF Strip(Head(bulk_numbers)) # "" THEN <<Strip(Head(bulk_numbers))>> ELSE <<>>)
         \o NumbersList(Tail(bulk_numbers))

\* create_endpoint.py 163-171: the numbers of the list that are available
RECURSIVE AvailableNumbers(_, _)
AvailableNumbers(numbers_list, numbers_set) ==
    IF numbers_list = <<>> THEN <<>>
    ELSE (IF is_number_available(Head(numbers_list), numbers_set)
          THEN <<Head(numbers_list)>> ELSE <<>>)
         \o AvailableNumbers(Tail(numbers_list), numbers_set)

\* create_endpoint.py 14-21 and 104-111: the tabs need a URL and a token
TabOpen == ss_current_api_url # <<>> /\ ss_current_token # ""

\* create_endpoint.py 38-73: the "Create Endpoint" button of the single tab.
CreateSingle ==
    /\ d_last.op # "off"
    /\ d_clock < MaxActions
    /\ TabOpen
    /\ \E single_number \in TypedNumbers, check_before_create \in BOOLEAN :
          LET refused ==
                  \/ single_number = ""
                  \/ check_before_create /\ ~ss_numbers_loaded
                  \/ check_before_create
                     /\ ~is_number_available(single_number, ss_phone_numbers)
              post == Post([isStr |-> TRUE, str |-> single_number, list |-> <<>>],
                           ss_current_api_url, ss_current_token)
          IN  d_last' = CreateAction("single", check_before_create, <<single_number>>,
                                     IF refused THEN <<>> ELSE <<post>>)
    /\ d_clock' = d_clock + 1
    /\ UNCHANGED <<ss_selected_org, ss_selected_provider_idx, ss_numbers_loaded,
                   ss_phone_numbers, ss_last_refresh, ss_current_api_url,
                   ss_current_token, csv_file, exceptDash>>

\* create_endpoint.py 144-207: the "Create All Endpoints" button of the bulk
\* tab.
CreateBulk ==
    /\ d_last.op # "off"
    /\ d_clock < MaxActions
    /\ TabOpen
    /\ \E bulk_numbers \in BulkTexts, check_before_bulk \in BOOLEAN :
          LET numbers_list == NumbersList(bulk_numbers)
              available_numbers == AvailableNumbers(numbers_list, ss_phone_numbers)
              numbers_to_create ==
                  IF check_before_bulk THEN available_numbers ELSE numbers_list
              refused ==
                  \/ numbers_list = <<>>
                  \/ check_before_bulk /\ ~ss_numbers_loaded
                  \/ check_before_bulk /\ available_numbers = <<>>
              post == Post([isStr |-> FALSE, str |-> "", list |-> numbers_to_create],
                           ss_current_api_url, ss_current_token)
          IN  d_last' = CreateAction("bulk", check_before_bulk, bulk_numbers,
                                     IF refused THEN <<>> ELSE <<post>>)
    /\ d_clock' = d_clock + 1
    /\ UNCHANGED <<ss_selected_org, ss_selected_provider_idx, ss_numbers_loaded,
                   ss_phone_numbers, ss_last_refresh, ss_current_api_url,
                   ss_current_token, csv_file, exceptDash>>

\* scripts/get_avl_number.py 22: the CLI writes the CSV snapshot.
SaveToCsv ==
    /\ d_last.op # "off"
    /\ d_clock < MaxActions
    /\ csv_file' = TRUE
    /\ d_clock' = d_clock + 1
    /\ d_last' = LastAction("cli", <<>>, <<>>)
    /\ UNCHANGED <<ss_selected_org, ss_selected_provider_idx, ss_numbers_loaded,
                   ss_phone_numbers, ss_last_refresh, ss_current_api_url,
                   ss_current_token, exceptDash>>

\* ------------------------------------------------------- specifications

FetchIdle ==
    /\ total_items = 0
    /\ endpoint_items = 0
    /\ limit = 0
    /\ phone_numbers_url = <<>>
    /\ available = {}
    /\ offset = 0
    /\ pc = "off"
    /\ outcome = "none"
    /\ stderr = <<>>
    /\ log = <<>>

\* One call of fetch_all_available_numbers against a backend.
Init == FetchInit /\ CreateIdle /\ ExtractIdle /\ ConnIdle /\ AvailIdle /\ CacheIdle /\ OrgIdle /\ PhonesIdle /\ NormIdle /\ ShapeIdle /\ DashIdle

Next ==
    \/ \E u \in ApiUrls, l \in 1..MaxLimit : Call(u, l)
    \/ Primary401
    \/ \E s \in ErrorStatuses : PrimaryHttpError(s)
    \/ \E f \in TransportFailures : PrimaryTransportFailure(f)
    \/ \E sh \in Shapes : PrimaryOk(sh[1], sh[2])
    \/ Primary404NoFallback
    \/ \E s \in Non200Statuses : Primary404FallbackNon200(s)
    \/ \E f \in TransportFailures : Primary404FallbackTransportFailure(f)
    \/ \E sh \in Shapes : Primary404FallbackOk(sh[1], sh[2])

Spec == Init /\ [][Next]_vars

\* One call of create_endpoint, directly or through a wrapper.
InitCreate == FetchIdle /\ CreateIdle /\ ExtractIdle /\ ConnIdle /\ AvailIdle /\ CacheIdle /\ OrgIdle /\ PhonesIdle /\ NormIdle /\ ShapeIdle /\ DashIdle

NextCreate ==
    \/ \E e \in Entries, pn \in PhoneNumberArgs, b \in BaseUrlArgs, t \in TokenArgs,
          s \in PostStatuses, body \in PostBodies :
          CreateReturns(e, pn, b, t, s, body)
    \/ \E e \in Entries, pn \in PhoneNumberArgs, b \in BaseUrlArgs, t \in TokenArgs,
          s \in PostStatuses, body \in PostBodies :
          CreateDecodeFails(e, pn, b, t, s, body)
    \/ \E e \in Entries, pn \in PhoneNumberArgs, b \in BaseUrlArgs, t \in TokenArgs,
          s \in PostStatuses, body \in PostBodies :
          CreateHttpError(e, pn, b, t, s, body)
    \/ \E e \in Entries, pn \in PhoneNumberArgs, b \in BaseUrlArgs, t \in TokenArgs,
          f \in TransportFailures :
          CreateTransportFailure(e, pn, b, t, f)
    \/ SingleTabShows
    \/ BulkTabShows
    \/ AddToOrgShows

SpecCreate == InitCreate /\ [][NextCreate]_vars

\* The extraction applied to every item of a bounded universe.
InitExtract == FetchIdle /\ CreateIdle /\ ExtractInit /\ ConnIdle /\ AvailIdle /\ CacheIdle /\ OrgIdle /\ PhonesIdle /\ NormIdle /\ ShapeIdle /\ DashIdle

NextExtract == ExtractItem

SpecExtract == InitExtract /\ [][NextExtract]_vars

\* The connections of one workspace: fetched, stored, looked up again.
InitConnections == FetchIdle /\ CreateIdle /\ ExtractIdle /\ ConnIdle /\ AvailIdle /\ CacheIdle /\ OrgIdle /\ PhonesIdle /\ NormIdle /\ ShapeIdle /\ DashIdle

NextConnections ==
    \/ GetConnections
    \/ GetConnectionsRaises
    \/ StoreOrgData
    \/ LookupOrgData

SpecConnections == InitConnections /\ [][NextConnections]_vars

\* One membership test on a fetched set.
InitAvailable == FetchIdle /\ CreateIdle /\ ExtractIdle /\ ConnIdle /\ AvailInit /\ CacheIdle /\ OrgIdle /\ PhonesIdle /\ NormIdle /\ ShapeIdle /\ DashIdle

NextAvailable == IsNumberAvailable

SpecAvailable == InitAvailable /\ [][NextAvailable]_vars

\* The memoized lookups of one session, against a server whose data changes.
InitCache == FetchIdle /\ CreateIdle /\ ExtractIdle /\ ConnIdle /\ AvailIdle /\ CacheInit /\ OrgIdle /\ PhonesIdle /\ NormIdle /\ ShapeIdle /\ DashIdle

NextCache ==
    \/ ServerChanges
    \/ GetAdminToken
    \/ GetOrgsData
    \/ GetOrgFullData
    \/ ClearCache

SpecCache == InitCache /\ [][NextCache]_vars

\* One lookup of an organization by name.
InitOrg ==
    FetchIdle /\ CreateIdle /\ ExtractIdle /\ ConnIdle /\ AvailIdle /\ CacheIdle /\ OrgInit
    /\ PhonesIdle /\ NormIdle /\ ShapeIdle /\ DashIdle

NextOrg == GetOrgIdByName

SpecOrg == InitOrg /\ [][NextOrg]_vars

\* One call of utils.get_phone_numbers.
InitPhones ==
    FetchIdle /\ CreateIdle /\ ExtractIdle /\ ConnIdle /\ AvailIdle /\ CacheIdle /\ OrgIdle
    /\ PhonesInit /\ NormIdle /\ ShapeIdle /\ DashIdle

NextPhones ==
    \/ PhonesCall
    \/ PhonesPageOk
    \/ PhonesHttpError
    \/ PhonesTransportFailure

SpecPhones == InitPhones /\ [][NextPhones]_vars

\* The primary path reads one decoded body.
InitNormalize ==
    FetchIdle /\ CreateIdle /\ ExtractIdle /\ ConnIdle /\ AvailIdle /\ CacheIdle /\ OrgIdle
    /\ PhonesIdle /\ NormInit /\ ShapeIdle /\ DashIdle

NextNormalize ==
    \/ Normalize

SpecNormalize == InitNormalize /\ [][NextNormalize]_vars

\* One decoded body through the primary and through the fallback path.
InitShape ==
    FetchIdle /\ CreateIdle /\ ExtractIdle /\ ConnIdle /\ AvailIdle /\ CacheIdle /\ OrgIdle
    /\ PhonesIdle /\ NormIdle /\ ShapeInit /\ DashIdle

NextShape ==
    \/ ReadBothWays

SpecShape == InitShape /\ [][NextShape]_vars

\* A session of the dashboard: selections, refreshes and creations.
InitDashboard ==
    FetchIdle /\ CreateIdle /\ ExtractIdle /\ ConnIdle /\ AvailIdle /\ CacheIdle /\ OrgIdle
    /\ PhonesIdle /\ NormIdle /\ ShapeIdle /\ DashInit

NextDashboard ==
    \/ SelectOrg
    \/ SelectProvider
    \/ RefreshFromApi
    \/ CreateSingle
    \/ CreateBulk
    \/ SaveToCsv

SpecDashboard == InitDashboard /\ [][NextDashboard]_vars

\* ================================================================ claims
Max(a, b) == IF a > b THEN a ELSE b
CeilDiv(a, b) == (a + b - 1) \div b

\* the larger of the two resources a call may page through
LargerResource == Max(total_items, endpoint_items)
RequestsTo(target) == Cardinality({i \in DOMAIN log : log[i].target = target})
\* the values found by the requests before the i-th one
GotBefore(i) == UNION {log[j].got : j \in 1..(i - 1)}
Last == log[Len(log)]

\* ---------------------------------------------------------------- C1
\* C1 as stated: one call sends at most ceil(total_items / L) + 1 GET
\* requests, the primary and the fallback requests counted together
\* (total_items read as the larger of the two resources).
C1_RequestBoundOriginal ==
    pc # "idle" => Len(log) <= CeilDiv(LargerResource, limit) + 1

\* C1 as amended: one call sends at most ceil(total_items / L) + 1 GET
\* requests to the phone-numbers URL and at most as many to the endpoints
\* URL, so at most 2 * (ceil(total_items / L) + 1) in all, and the offset
\* never passes the last full page: the loop cannot go on for ever.
C1_RequestBound ==
    pc # "idle" =>
        /\ RequestsTo("primary") <= CeilDiv(LargerResource, limit) + 1
        /\ RequestsTo("endpoints") <= CeilDiv(LargerResource, limit) + 1
        /\ Len(log) <= 2 * (CeilDiv(LargerResource, limit) + 1)
        /\ offset <= LargerResource

\* A finished call that used the whole amended bound, past the original one.
C1_Witness ==
    /\ pc = "done"
    /\ LargerResource > 0
    /\ Len(log) = 2 * (CeilDiv(LargerResource, limit) + 1)

\* ---------------------------------------------------------------- C2
\* a page request that failed: 401, another error status, or no answer
\* (a 404 of the primary URL is the fallback's case, not a failure here)
PageFailed(r) ==
    \/ r.failure # "none"
    \/ r.target = "primary" /\ r.status >= 400 /\ r.status # 404
    \/ r.target = "endpoints" /\ r.status # 200

\* C2: a failed page request is the last request of the call, the call does
\* not raise, and it returns exactly the numbers of the pages before it.
C2_FailedPageEndsFetch ==
    \A i \in DOMAIN log :
        PageFailed(log[i]) =>
            /\ i = Len(log)
            /\ pc = "done"
            /\ outcome = "returned"
            /\ available = GotBefore(i)

\* A call that ended on a timed-out page with numbers already accumulated.
C2_Witness ==
    /\ pc = "done"
    /\ Len(log) >= 2
    /\ Last.target = "primary"
    /\ Last.failure = "timeout"
    /\ available # {}

\* ---------------------------------------------------------------- C3
ErrorStatusAt(i) ==
    /\ log[i].target = "primary"
    /\ log[i].failure = "none"
    /\ log[i].status >= 400
    /\ log[i].status \notin {401, 404}

\* C3 as stated: an error status other than 401 and 404 makes the fetcher
\* raise to its caller.
C3_ErrorStatusRaisesOriginal ==
    \A i \in DOMAIN log : ErrorStatusAt(i) => outcome = "raised"

\* C3 as amended: an error status other than 401 and 404 ends the loop; the
\* error is caught inside the call, which prints one "Request failed" line
\* to stderr and returns the set accumulated so far; nothing is raised.
C3_ErrorStatusReturns ==
    \A i \in DOMAIN log :
        ErrorStatusAt(i) =>
            /\ pc = "done"
            /\ outcome = "returned"
            /\ stderr = <<"Request failed">>
            /\ available = GotBefore(i)

\* A call that ended on a 500 page after a page of numbers.
C3_Witness ==
    /\ pc = "done"
    /\ Len(log) >= 2
    /\ ErrorStatusAt(Len(log))
    /\ Last.status = 500
    /\ available # {}

\* ---------------------------------------------------------------- C4
\* every request so far was answered 200 with a page the fetcher knows how to
\* read, has_more true or absent on every full page
OnlyPagesServed ==
    \A i \in DOMAIN log :
        /\ log[i].target = "primary"
        /\ log[i].status = 200
        /\ log[i].key \in {"items", "data", "results", "list"}
        /\ (log[i].size = limit => log[i].hm # "false")

\* C4: when the server answers k full pages and then a short one, the call
\* sends exactly k + 1 requests, at offsets 0, L, ..., k*L (the resource
\* holds k*L + r items, r < L).
C4_FullPagesThenShort ==
    (pc = "done" /\ OnlyPagesServed) =>
        /\ Len(log) = (total_items \div limit) + 1
        /\ \A i \in DOMAIN log : log[i].offset = (i - 1) * limit

\* ---------------------------------------------------------------- C5
PrimaryNotFoundAt(i) ==
    log[i].target = "primary" /\ log[i].failure = "none" /\ log[i].status = 404

FullEndpointsPageAt(j) ==
    /\ log[j].target = "endpoints"
    /\ log[j].status = 200
    /\ log[j].key \in {"items", "data", "list"}
    /\ log[j].size = limit
    /\ log[j].hm # "false"

C6_FallbackUrl ==
    \A p \in Providers, c \in ConnectionIds :
        phone_numbers_url = BuildApiUrl(BaseUrl, "o1", "w1", p, c) =>
            \A i \in DOMAIN log :
                log[i].target = "endpoints" =>
                    log[i].url = BaseUrl \o <<"api", "app-authoring", "orgs", "o1",
                                              "workspaces", "w1", "connections", c,
                                              "endpoints">>

\* ---------------------------------------------------------------- C7
\* the fallback of the 404 at place i found nothing to read: no endpoints
\* URL, or an endpoints request that failed or did not answer 200
FallbackFailedAt(i) ==
    /\ PrimaryNotFoundAt(i)
    /\ \/ i = Len(log)
       \/ /\ i < Len(log)
          /\ (log[i + 1].failure # "none" \/ log[i + 1].status # 200)

\* C7: when the URL gives no endpoints URL, or the endpoints request fails
\* or answers another status than 200, the fallback adds nothing and the
\* call returns, without an exception and without a further request.
C7_FallbackNeverRaises ==
    \A i \in DOMAIN log :
        FallbackFailedAt(i) =>
            /\ pc = "done"
            /\ outcome = "returned"
            /\ stderr = <<>>
            /\ Len(log) <= i + 1
            /\ available = GotBefore(i)

\* A call whose endpoints request timed out after a page of numbers.
C7_Witness ==
    /\ pc = "done"
    /\ Len(log) >= 3
    /\ PrimaryNotFoundAt(Len(log) - 1)
    /\ Last.target = "endpoints"
    /\ Last.failure = "timeout"
    /\ available # {}

\* ---------------------------------------------------------------- C8
\* field k of object o is present and not empty (null, "" and 0 are empty)
NonEmptyField(o, k) ==
    /\ k \in DOMAIN o
    /\ o[k].t # "null"
    /\ ~(o[k].t = "str" /\ o[k].s = "")
    /\ ~(o[k].t = "int" /\ o[k].n = 0)

CandidateOrder == <<"phone_number", "number", "phone", "endpoint", "id">>

\* the value as text: a string as it is, an integer in decimal
TextOf(v) == IF v.t = "str" THEN v.s ELSE IntStr(v.n)

\* C8: for an object with a non-empty candidate field, both paths extract
\* exactly the value of the first non-empty field in the order phone_number,
\* number, phone, endpoint, id, whatever the later fields hold.
C8_FirstNonEmptyFieldWins ==
    (x_pc = "done" /\ x_item.t = "obj") =>
        \A i \in DOMAIN CandidateOrder :
            (/\ NonEmptyField(x_item.o, CandidateOrder[i])
             /\ \A j \in 1..(i - 1) : ~NonEmptyField(x_item.o, CandidateOrder[j]))
            => /\ x_primary = {TextOf(x_item.o[CandidateOrder[i]])}
               /\ x_fallback = {TextOf(x_item.o[CandidateOrder[i]])}

\* The object {number: "+9111", id: "x"} after extraction.
C8_Witness ==
    /\ x_pc = "done"
    /\ x_item = JObj([number |-> FStr("+9111"), id |-> FStr("x")])
    /\ x_primary = {"+9111"}

\* ---------------------------------------------------------------- C9
\* C9 as stated: a call sends exactly one POST, to {base_url}/endpoints for
\* the base_url the caller passed, with body {"endpoints": L} and a bearer
\* token header; on a 2xx answer with a JSON body it returns the decoded body.
C9_OnePostOriginal ==
    c_pc = "done" =>
        /\ Len(posts) = 1
        /\ c_args.base_url # <<>> => posts[1].url = c_args.base_url \o <<"endpoints">>
        /\ posts[1].json = [endpoints |-> c_args.phone_numbers]
        /\ posts[1].headers.Authorization[1] = "Bearer"
        /\ (c_response.failure = "none" /\ c_response.status \in 200..299
            /\ c_response.body.json) =>
              /\ c_result.kind = "returned"
              /\ c_result.value = <<"decoded", c_response.body.text>>

\* What the code does (C9): a call sends exactly one POST, with body
\* {"endpoints": L}; to {base_url}/endpoints with the caller's token as
\* bearer token when the caller passed both a non-empty base_url and a
\* non-empty token, and otherwise to the configured {BASE_URL}/endpoints with
\* the configured token; on a 2xx answer with a JSON body it returns the
\* decoded body.
C9_OnePost ==
    c_pc = "done" =>
        /\ Len(posts) = 1
        /\ posts[1].json = [endpoints |-> c_args.phone_numbers]
        /\ (c_args.base_url # <<>> /\ c_args.token # "") =>
              /\ posts[1].url = c_args.base_url \o <<"endpoints">>
              /\ posts[1].headers.Authorization = <<"Bearer", c_args.token>>
        /\ (c_args.base_url = <<>> \/ c_args.token = "") =>
              /\ posts[1].url = ConfigBaseUrl \o <<"endpoints">>
              /\ posts[1].headers.Authorization = <<"Bearer", ConfigToken>>
        /\ (c_response.failure = "none" /\ c_response.status \in 200..299
            /\ c_response.body.json) =>
              /\ c_result.kind = "returned"
              /\ c_result.value = <<"decoded", c_response.body.text>>

\* A call with a base_url and no token, whose POST went to the configured URL.
C9_ConfiguredUrlUsed ==
    /\ c_pc = "done"
    /\ c_args.base_url # <<>>
    /\ c_args.token = ""
    /\ Len(c_args.phone_numbers) = 2
    /\ posts[1].url = ConfigBaseUrl \o <<"endpoints">>
    /\ c_result.kind = "returned"

\* --------------------------------------------------------------- C10
TransportKinds == {"Timeout", "ConnectionError"}

\* the three outcomes of the claim
ReturnedBody ==
    /\ c_response.failure = "none"
    /\ c_response.status \in 200..299
    /\ c_result.kind = "returned"
    /\ c_result.value = <<"decoded", c_response.body.text>>
CreationError ==
    /\ c_response.failure = "none"
    /\ c_response.status >= 400
    /\ c_result.kind = "ValueError"
    /\ c_result.message.status = c_response.status
    /\ c_result.message.details =
          IF c_response.body.json
          THEN <<"API Error Details", <<"decoded", c_response.body.text>>>>
          ELSE <<"Response Text", c_response.body.text>>
TransportError ==
    /\ c_response.failure # "none"
    /\ c_result.kind \in TransportKinds
    /\ c_result.kind # "ValueError"
    /\ c_result.kind = IF c_response.failure = "timeout" THEN "Timeout"
                       ELSE "ConnectionError"
\* the outcome the claim leaves out
DecodeError ==
    /\ c_response.failure = "none"
    /\ c_response.status \in 200..299
    /\ ~c_response.body.json
    /\ c_result.kind = "JSONDecodeError"

\* C10 as stated: a call ends with the body returned (2xx), with a creation
\* error carrying status and body (error status), or with the transport
\* error as it is (network failure).
C10_ThreeOutcomesOriginal ==
    c_pc = "done" => (ReturnedBody \/ CreationError \/ TransportError)

\* What the code does (C10): a call ends in one of four outcomes: a 2xx answer
\* whose body is JSON returns the decoded body; a 2xx answer whose body is
\* not JSON fails with the decode error of response.json(), passed on as it
\* is; an error status fails with a creation error (ValueError) carrying
\* the upstream status and body; a network failure fails with the transport
\* error as it is, another kind of error than the creation error.
C10_FourOutcomes ==
    c_pc = "done" =>
        /\ ReturnedBody \/ DecodeError \/ CreationError \/ TransportError
        /\ (c_response.failure = "none" /\ c_response.status \in 200..299
            /\ c_response.body.json) => ReturnedBody
        /\ (c_response.failure = "none" /\ c_response.status >= 400) => CreationError
        /\ c_response.failure # "none" => TransportError

\* A 409 answer that ended in a creation error carrying status and details.
C10_CreationErrorSeen ==
    /\ c_pc = "done"
    /\ c_response.status = 409
    /\ c_result.kind = "ValueError"
    /\ c_result.message.status = 409
    /\ c_result.message.details =
          <<"API Error Details", <<"decoded", "{\"detail\": \"already exists\"}">>>>

\* --------------------------------------------------------------- C11
\* C11: whenever the creation failed with an upstream error answer whose
\* body contains "already exist" in any letter case, the caller (a dashboard
\* tab or the add_to_org command) surfaces the conflict outcome, not the
\* generic failure.
C11_ConflictSurfaced ==
    (/\ c_pc = "shown"
     /\ c_response.failure = "none"
     /\ IsHttpError(c_response.status)
     /\ SaysAlreadyExist(c_response.body.text)) => shown = "conflict"

\* --------------------------------------------------------------- C12
\* empty or made of blanks only
Blank(str) == \A i \in 1..Len(str) : SubSeq(str, i, i) = " "

\* the first of id, connection_id, connectionId that is present and not
\* empty, <<>> when there is none
FirstIdField(o) ==
    LET named == {i \in DOMAIN ConnIdFields : NonEmptyField(o, ConnIdFields[i])}
    IN  IF named = {} THEN <<>>
        ELSE <<o[ConnIdFields[CHOOSE i \in named : \A j \in named : i <= j]]>>

\* the (id, name) pair the claim gives an entry, <<>> when it is discarded
ExpectedConnection(e) ==
    IF e.t = "str"
    THEN IF Blank(e.s) THEN <<>> ELSE <<[id |-> e.s, name |-> e.s]>>
    ELSE IF e.t = "obj"
    THEN IF FirstIdField(e.o) = <<>> \/ Blank(TextOf(FirstIdField(e.o)[1])) THEN <<>>
         ELSE LET id == Strip(TextOf(FirstIdField(e.o)[1]))
              IN  <<[id |-> id,
                     name |-> IF NonEmptyField(e.o, "name") THEN TextOf(e.o["name"])
                              ELSE id]>>
    ELSE <<>>

RECURSIVE ExpectedConnections(_)
ExpectedConnections(raw) ==
    IF raw = <<>> THEN <<>>
    ELSE ExpectedConnection(Head(raw)) \o ExpectedConnections(Tail(raw))

\* the id and the name of each connection of a list, as text
IdsAndNames(connections) ==
    [i \in DOMAIN connections |->
        [id |-> TextOf(connections[i]["id"]), name |-> TextOf(connections[i]["name"])]]

\* C12: the returned list holds, in order, one connection per entry whose id
\* is not blank: a string s as {id: s, name: s}, an object with the id of
\* its first non-empty field among id, connection_id, connectionId and its
\* own name or else that id; and no connection with a blank id is in the
\* returned list, in the cached org data or in the provider list, whose ids
\* are those of the returned list.
C12_NoBlankConnectionId ==
    /\ n_pc \in {"returned", "cached"} =>
          /\ IdsAndNames(n_returned) = ExpectedConnections(n_raw)
          /\ \A i \in DOMAIN n_returned : ~Blank(TextOf(n_returned[i]["id"]))
    /\ n_pc = "cached" =>
          /\ Len(n_cached) = Len(n_returned)
          /\ \A i \in DOMAIN n_cached :
                /\ ~Blank(TextOf(n_cached[i]["id"]))
                /\ TextOf(n_cached[i]["id"]) = Strip(TextOf(n_returned[i]["id"]))
                /\ TextOf(n_cached[i]["name"]) = TextOf(n_returned[i]["name"])
          /\ Len(ProviderList(n_cached)) = Len(n_cached)
          /\ \A i \in DOMAIN n_cached :
                ProviderList(n_cached)[i].connection = TextOf(n_cached[i]["id"])

\* The list ["", "  ", {connection_id: "abc"}, "xyz"], normalized and cached.
C12_Witness ==
    /\ n_pc = "cached"
    /\ n_raw = <<JStr(""), JStr("  "),
                 JObj([k \in {"connection_id"} |-> FStr("abc")]), JStr("xyz")>>
    /\ IdsAndNames(n_returned) =
          <<[id |-> "abc", name |-> "abc"], [id |-> "xyz", name |-> "xyz"]>>
    /\ IdsAndNames(n_cached) = IdsAndNames(n_returned)

\* --------------------------------------------------------------- C13
\* C13: the membership test succeeds for every candidate that denotes a
\* number of the set, that is whenever the candidate and some number of the
\* set are equal after normalization.
C13_MembershipUpToNormalization ==
    a_pc = "done" =>
        ((\E n \in a_set :
              normalize_phone_number(a_candidate) = normalize_phone_number(n))
         => a_result)

\* --------------------------------------------------------------- C14
\* C14: a lookup of a populated key sends no HTTP request and returns the
\* cached entry, and no operation other than clear_cache removes or changes
\* an entry that was populated before it.
C14_PopulatedKeyStays ==
    /\ (k_last.op \notin {"none", "clear_cache"} /\ k_last.hit) =>
          /\ k_last.requests = <<>>
          /\ ~k_last.raised
          /\ session_state[k_last.key] = k_last.before[k_last.key]
    /\ k_last.op \notin {"none", "clear_cache"} =>
          \A key \in DOMAIN k_last.before :
              key \in DOMAIN session_state /\ session_state[key] = k_last.before[key]

\* A lookup that found an entry older than the server's data and left it.
C14_Witness ==
    /\ k_last.op = "_get_org_full_data"
    /\ k_last.hit
    /\ session_state[k_last.key].version < server
    /\ session_state[k_last.key].connections["w1"] # <<>>

\* --------------------------------------------------------------- C15
\* the organizations of the list that match the name
MatchingOrgs ==
    {i \in DOMAIN o_orgs : MatchedField(o_orgs[i], Strip(Lower(o_name))) # ""}

\* the identifiers an organization carries: its id fields, its domains and
\* the base names of its domains
IdentifiersOf(org) ==
    LET own == {Field(org, k) : k \in {"org_id", "orgId", "id", "org_domain", "domain"}}
    IN  (own \cup {FirstPart(x) : x \in own}) \ {""}

\* C15: the result is None whenever no organization of the list matches the
\* name, and a result other than None is an identifier of an organization
\* that matched.
C15_NoneWithoutMatch ==
    o_pc = "done" =>
        /\ MatchingOrgs = {} => o_result = <<>>
        /\ o_result # <<>> =>
              \E i \in MatchingOrgs : o_result[1] \in IdentifiersOf(o_orgs[i])

\* --------------------------------------------------------------- C16
\* the items of the pages of requests 1..n, one after another
RECURSIVE PagesConcatenated(_)
PagesConcatenated(n) ==
    IF n = 0 THEN <<>> ELSE PagesConcatenated(n - 1) \o p_log[n].page_items

\* the page of request i ends the paging: empty, short, or has_more false
\* (has_more as the function derives it: an answer that is one object and
\* no page is a last page of one item)
LastPage(i) ==
    \/ p_log[i].page_items = <<>>
    \/ Len(p_log[i].page_items) < p_limit
    \/ ~p_log[i].has_more

\* C16: a call that returns gives the items of all fetched pages in the
\* order of their offsets 0, limit, 2*limit, ..., duplicates kept, and it
\* fetched pages up to the first empty or short page or page with has_more
\* false; a page request answered with an error status (401 and 404
\* included) is the last one, the call raises and returns no list.
C16_AllPagesInOrder ==
    /\ p_outcome = "returned" =>
          /\ p_returned = <<PagesConcatenated(Len(p_log))>>
          /\ \A i \in DOMAIN p_log :
                /\ p_log[i].offset = (i - 1) * p_limit
                /\ p_log[i].status = 200
                /\ i < Len(p_log) => ~LastPage(i)
          /\ p_log # <<>> /\ LastPage(Len(p_log))
    /\ \A i \in DOMAIN p_log :
          (p_log[i].failure = "none" /\ p_log[i].status >= 400) =>
              /\ i = Len(p_log)
              /\ p_pc = "done"
              /\ p_outcome = "raised"
              /\ p_returned = <<>>

\* A call that returned two pages holding the same number twice.
C16_Witness ==
    /\ p_outcome = "returned"
    /\ Len(p_log) = 2
    /\ Len(p_returned[1]) = 2
    /\ p_returned[1][1] = p_returned[1][2]

\* --------------------------------------------------------------- C17
\* request i was answered 200 with a page (under a key the fetcher reads, or
\* as a list)
DecodedPageAt(i) ==
    /\ log[i].failure = "none"
    /\ log[i].status = 200
    /\ log[i].key \in {"items", "data", "results", "list"}
    /\ (log[i].target = "endpoints" => log[i].key # "results")

\* the page of request i is empty, short, or says has_more false
EndOfData(i) ==
    log[i].size = 0 \/ log[i].size < limit \/ log[i].hm = "false"

\* C17: after each decoded page the fetcher stops exactly when the page is
\* empty, or holds fewer than limit items, or has_more is false; otherwise
\* the next request is at offset + limit (so a full page without has_more
\* continues, a full page with has_more false stops, a short page stops even
\* with has_more true).
C17_StopsExactlyAtEndOfData ==
    \A i \in DOMAIN log :
        DecodedPageAt(i) =>
            IF EndOfData(i)
            THEN i = Len(log) /\ pc = "done"
            ELSE IF i = Len(log)
                 THEN pc = "loop" /\ offset = log[i].offset + limit
                 ELSE log[i + 1].offset = log[i].offset + limit

\* --------------------------------------------------------------- C18
\* the reference: items under items, else data, else results, else none;
\* has_more as the body says, else whether those items fill the page
ReferenceItems(body) ==
    IF body.type = "list" THEN body.list
    ELSE IF body.type # "dict" THEN <<>>
    ELSE IF body.items # <<>> THEN body.items[1]
    ELSE IF body.data # <<>> THEN body.data[1]
    ELSE IF body.results # <<>> THEN body.results[1]
    ELSE <<>>

ReferenceNormalize(body, lim) ==
    [items |-> ReferenceItems(body),
     has_more |-> IF body.type \in {"dict", "list"}
                  THEN IF body.has_more = "absent" THEN Len(ReferenceItems(body)) = lim
                       ELSE body.has_more = "true"
                  ELSE FALSE]

\* C18: for every decoded body and limit, the (items, has_more) pair the
\* primary path derives is the reference pair: for a mapping the items under
\* items, else data, else results, else none, with has_more the body's own or
\* else (number of those items = limit) whichever key held them; for a list
\* the list and (length = limit); for anything else no items and false.
C18_PrimaryEqualsReference ==
    z_pc = "normalized" => z_norm = <<ReferenceNormalize(z_body, z_limit)>>

\* --------------------------------------------------------------- C19
\* request i was answered with a page of exactly limit items
FullPageAt(i) ==
    log[i].failure = "none" /\ log[i].status = 200 /\ log[i].size = limit

\* C19: during a fetch the offset is a non-negative multiple of limit; it
\* grows by exactly limit, and only after a fully-sized page; the requests go
\* out one after another at offsets 0, limit, 2*limit, ... without a gap
\* (a request at the offset of the one before it is the fallback's, to the
\* other URL), and no (URL, offset) pair is requested twice.
C19_OffsetsInSteps ==
    pc \in {"loop", "done"} =>
        /\ offset >= 0
        /\ offset % limit = 0
        /\ IF log = <<>> THEN offset = 0
           ELSE \/ offset = Last.offset
                \/ offset = Last.offset + limit /\ FullPageAt(Len(log))
        /\ log # <<>> => log[1].offset = 0
        /\ \A i \in 1..(Len(log) - 1) :
              \/ /\ log[i + 1].offset = log[i].offset
                 /\ log[i + 1].url # log[i].url
              \/ /\ log[i + 1].offset = log[i].offset + limit
                 /\ FullPageAt(i)
        /\ \A i, j \in DOMAIN log :
              (log[i].url = log[j].url /\ log[i].offset = log[j].offset) => i = j

\* A fetch whose second page was found through the fallback: three requests,
\* at offsets 0, limit, limit.
C19_Witness ==
    /\ pc = "done"
    /\ Len(log) = 3
    /\ log[2].offset = limit
    /\ log[3].offset = limit
    /\ log[3].target = "endpoints"

\* --------------------------------------------------------------- C20
\* to_string of a scalar item
ScalarText(item) ==
    IF item.t = "str" THEN item.s
    ELSE IF item.t = "int" THEN IntStr(item.n)
    ELSE "None"

\* an object item none of whose candidate fields is present and non-empty
NoCandidateField(item) ==
    /\ item.t = "obj"
    /\ \A i \in DOMAIN CandidateOrder : ~NonEmptyField(item.o, CandidateOrder[i])

\* C20: every item contributes one value, on the primary and on the fallback
\* path alike: a string itself, any other scalar its text, an object without a
\* non-empty candidate field its text too; no item is dropped.
C20_EveryItemContributes ==
    x_pc = "done" =>
        /\ Cardinality(x_primary) = 1
        /\ Cardinality(x_fallback) = 1
        /\ x_item.t # "obj" =>
              /\ x_primary = {ScalarText(x_item)}
              /\ x_fallback = {ScalarText(x_item)}

\* --------------------------------------------------------------- C21
\* the number of requests to the endpoints URL before request i
EndpointsRequestsBefore(i) ==
    Cardinality({j \in 1..(i - 1) : log[j].target = "endpoints"})

\* C21: once the fallback is triggered, the endpoints URL is paged through
\* on its own: its requests are at offsets 0, limit, 2*limit, ..., whatever
\* the offset of the primary URL's 404, and no request goes to the primary
\* URL in between; the run goes on after every full page that does not say
\* has_more false.
C21_FreshEndpointsRun ==
    \A i \in DOMAIN log :
        log[i].target = "endpoints" =>
            /\ log[i].offset = limit * EndpointsRequestsBefore(i)
            /\ \A j \in (i + 1)..Len(log) : log[j].target = "endpoints"
            /\ (DecodedPageAt(i) /\ ~EndOfData(i)) =>
                  IF i = Len(log) THEN pc = "loop"
                  ELSE log[i + 1].offset = log[i].offset + limit

\* --------------------------------------------------------------- C22
\* C22: for every decoded body and limit the fallback path derives the same
\* items, the same has_more, the same extracted values and the same decision
\* to continue or stop as the primary path.
C22_SameShapeContract ==
    s_pc = "read" => s_fallback = s_primary

\* --------------------------------------------------------------- C23
\* a URL without its last segment
Parent(u) == SubSeq(u, 1, Len(u) - 1)

\* C23: in the dashboard the numbers are fetched from {base}/phone-numbers
\* and a creation POST goes to {base}/endpoints with the same {base}; the URL
\* of a POST holds no phone-numbers segment.
C23_SameBaseForPost ==
    d_last.post # <<>> =>
        LET fetched_from == PhoneNumbersUrl(ss_current_api_url)
            posted_to == d_last.post[1].url
        IN  /\ fetched_from[Len(fetched_from)] = "phone-numbers"
            /\ posted_to = Parent(fetched_from) \o <<"endpoints">>
            /\ ~HasPhoneNumbers(posted_to)

\* --------------------------------------------------------------- C24
\* the numbers of list l that are elements of set s, in the order of l
RECURSIVE ElementsOf(_, _)
ElementsOf(l, s) ==
    IF l = <<>> THEN <<>>
    ELSE (IF Head(l) \in s THEN <<Head(l)>> ELSE <<>>) \o ElementsOf(Tail(l), s)

\* C24: with the availability check enabled a creation POST is sent only
\* when numbers are loaded, and every number of its body is an element of the
\* loaded set; in bulk mode the body is the typed list without the numbers
\* that are not in the set, in the typed order.
C24_PostedNumbersAreLoaded ==
    (d_last.post # <<>> /\ d_last.check) =>
        LET endpoints == d_last.post[1].json.endpoints
        IN  /\ ss_numbers_loaded
            /\ \A i \in DOMAIN endpoints : endpoints[i] \in ss_phone_numbers
            /\ d_last.op = "bulk" =>
                  endpoints = ElementsOf(NumbersList(d_last.typed), ss_phone_numbers)

\* --------------------------------------------------------------- C25
\* the cache keys of one environment
CacheKeysOf(env) ==
    {AdminTokenKey(env), OrgsDataKey(env)} \cup {OrgFullDataKey(o, env) : o \in OrgIds}

\* C25: clear_cache(env) removes the cache keys of that environment, all of
\* them and no other key: the entries of the other environments and the other
\* session keys (authentication flag, selection, loaded numbers) stay as
\* they were.
C25_ClearsOneEnvironment ==
    k_last.op = "clear_cache" =>
        /\ DOMAIN session_state = DOMAIN k_last.before \ CacheKeysOf(k_last.env)
        /\ \A key \in DOMAIN session_state : session_state[key] = k_last.before[key]
        /\ OtherSessionKeys \subseteq DOMAIN session_state

\* A clear_cache("prod") in a session that held the organization's data of
\* both environments.
C25_Witness ==
    /\ k_last.op = "clear_cache"
    /\ k_last.env = "prod"
    /\ OrgFullDataKey("o_qa", "prod") \in DOMAIN k_last.before
    /\ OrgFullDataKey("o_qa", "qa") \in DOMAIN session_state
    /\ AdminTokenKey("qa") \in DOMAIN session_state

\* --------------------------------------------------------------- C27
\* the organizations of the list one of whose fields equals the name
ExactlyMatchingOrgs ==
    {i \in DOMAIN o_orgs :
        MatchedField(o_orgs[i], Strip(Lower(o_name))) \in {"domain", "name", "id"}}

\* C27: when some organization of the list matches the searched name
\* exactly (case-insensitively), the returned id is an identifier of an
\* exactly matching organization, wherever in the list an organization that
\* matches only partially stands.
C27_ExactMatchPreferred ==
    (o_pc = "done" /\ ExactlyMatchingOrgs # {}) =>
        /\ o_result # <<>>
        /\ \E i \in ExactlyMatchingOrgs : o_result[1] \in IdentifiersOf(o_orgs[i])

\* --------------------------------------------------------------- C26
\* the last action was a "Refresh from API"
Refreshed == d_last.op = "refresh"

\* C26 as stated: after a refresh whose fetch went through without a
\* failure the CSV file does not exist.
C26_CsvGoneAfterFetchOriginal ==
    (Refreshed /\ d_last.fetched[1].first = "ok") => ~csv_file

\* What the code does (C26): after a refresh whose fetch returned at
\* least one number the CSV file does not exist; a fetch that returned no
\* number, failed or not, leaves the file where it was.
C26_CsvGoneAfterLoad ==
    Refreshed =>
        IF d_last.fetched[1].numbers # {} THEN ~csv_file
        ELSE csv_file = d_last.before.csv_file

\* A refresh that loaded numbers while a CSV snapshot lay on the disk.
C26_Witness ==
    /\ Refreshed
    /\ d_last.fetched[1].numbers # {}
    /\ d_last.before.csv_file
    /\ ~csv_file

\* --------------------------------------------------------------- C28
\* C28: the loaded numbers are those of the current selection: numbers are
\* loaded only while a provider is selected and the set is not empty, they
\* come from the selected provider's URL, and a change of organization or of
\* provider leaves numbers_loaded false, phone_numbers empty and
\* last_refresh none.
C28_LoadedForSelection ==
    /\ ss_numbers_loaded =>
          /\ ss_selected_org # ""
          /\ ss_selected_provider_idx # 0
          /\ ss_phone_numbers # {}
          /\ ss_last_refresh # 0
          /\ ss_phone_numbers \subseteq
                ResourceNumbers(PhoneNumbersUrl(
                    ProviderApiUrl(ss_selected_org, ss_selected_provider_idx)))
    /\ d_last.op \in {"org", "provider"} =>
          /\ ~ss_numbers_loaded
          /\ ss_phone_numbers = {}
          /\ ss_last_refresh = 0

\* Another provider chosen while the numbers of the first one were loaded.
C28_Witness ==
    /\ d_last.op = "provider"
    /\ d_last.before.numbers_loaded
    /\ d_last.before.selected_provider_idx # 0
    /\ ss_selected_provider_idx # 0
    /\ ss_phone_numbers = {}

\* --------------------------------------------------------------- C29
\* C29: a refresh whose fetch returns the empty set (a first page cut short
\* by a 401, an error status or a timeout included) leaves phone_numbers,
\* numbers_loaded and last_refresh as they were, and the CSV file in place.
C29_EmptyFetchChangesNothing ==
    (Refreshed /\ d_last.fetched[1].numbers = {}) =>
        /\ ss_phone_numbers = d_last.before.phone_numbers
        /\ ss_numbers_loaded = d_last.before.numbers_loaded
        /\ ss_last_refresh = d_last.before.last_refresh
        /\ csv_file = d_last.before.csv_file

\* A refresh that timed out on its first page, with numbers loaded before
\* and a CSV snapshot on the disk.
C29_Witness ==
    /\ Refreshed
    /\ d_last.fetched[1].first = "timeout"
    /\ d_last.before.numbers_loaded
    /\ d_last.before.csv_file
    /\ ss_numbers_loaded
    /\ csv_file

\* --------------------------------------------------------------- C30
\* the keys of the session that hold the full data of an organization
OrgFullDataKeys == {OrgFullDataKey(org_id, env) : org_id \in OrgIds, env \in Envs}

\* whether the request was among the ones the last operation sent
Sent(request) == \E i \in DOMAIN k_last.requests : k_last.requests[i] = request

\* C30: a first load whose workspace listing succeeds while the connections
\* request of one workspace fails still caches the organization's entry, with
\* an empty list for that workspace and the other workspace's list as the
\* API gave it; as long as clear_cache is not called a cached entry stays as
\* it is and a lookup of it sends no request; a load whose workspace listing
\* fails caches no entry for the organization (the session changes at most by
\* the admin token obtained on the way).
C30_FailedConnectionsStillCached ==
    /\ (k_last.op = "_get_org_full_data" /\ Sent("get_connections w1 failed"))
          => /\ ~k_last.hit /\ ~k_last.raised
             /\ k_last.key \in DOMAIN session_state
             /\ session_state[k_last.key].connections["w1"] = <<>>
             /\ session_state[k_last.key].connections["w2"] = SecondWorkspaceConnections
             /\ session_state[k_last.key].connections["w2"] # <<>>
    /\ (k_last.op = "_get_org_full_data" /\ k_last.hit)
          => k_last.requests = <<>> /\ ~k_last.raised
    /\ k_last.op \notin {"none", "clear_cache"}
          => \A key \in OrgFullDataKeys \cap DOMAIN k_last.before :
                /\ key \in DOMAIN session_state
                /\ session_state[key] = k_last.before[key]
    /\ (k_last.op = "_get_org_full_data" /\ k_last.raised)
          => /\ Sent("get_workspaces") \/ Sent("login")
             /\ k_last.key \notin DOMAIN session_state
             /\ \A key \in DOMAIN session_state :
                   key \in DOMAIN k_last.before \/ key = AdminTokenKey(k_last.env)
             /\ \A key \in DOMAIN k_last.before :
                   key \in DOMAIN session_state /\ session_state[key] = k_last.before[key]

\* A first load in which the connections request of workspace w1 failed.
C30_Witness ==
    /\ k_last.op = "_get_org_full_data"
    /\ ~k_last.hit
    /\ Sent("get_workspaces")
    /\ Sent("get_connections w1 failed")
    /\ k_last.key \in DOMAIN session_state
    /\ session_state[k_last.key].connections["w1"] = <<>>
    /\ session_state[k_last.key].connections["w2"] # <<>>

====
